---- MODULE Spec2Model ----
(***************************************************************************)
(* A model of the X-Ray decision-observability system:                     *)
(*   - the SDK client (src/sdk/client.py): the candidate summarizer        *)
(*     (process_candidates), the run/step scopes over the two context      *)
(*     variables, and the background batching worker with shutdown;        *)
(*   - the ingest endpoint of the backend (src/backend/app/routes.py) and   *)
(*     the funnel reconstruction (analyze_run) over what it has stored;    *)
(*   - the path of an event from the client to the store and the funnel.   *)
(* Each component has a specification of its own over the shared variables;*)
(* the variables of the other components stay at their initial value.      *)
(***************************************************************************)
EXTENDS Integers, Sequences, FiniteSets, TLC

VARIABLES
    \* ---- candidate summarizer (one process_candidates call) ----
    sm_pc,          \* position of the call: "call", "loop", "emit", "returned"
    sm_run,         \* _current_run.get() of the calling context (None or a run id)
    sm_cands,       \* the candidates argument
    sm_verd,        \* what filter_fn returns for the candidate at each position
    sm_i,           \* number of candidates the for loop has processed
    sm_surv,        \* survivors
    sm_hist,        \* rejection_histogram
    sm_ret,         \* the returned list (None before the return)
    sm_now,         \* the clock datetime.now() reads, counted from the call's beginning
    \* ---- context tracker (start_run / step scopes in concurrent contexts) ----
    _current_run,   \* the ContextVar: per context, None or a reference to a run_data dict
    _current_step,  \* the ContextVar: per context, None or a reference to a step_data dict
    run_dicts,      \* the run_data dicts created so far (a reference is an index)
    step_dicts,     \* the step_data dicts created so far
    frames,         \* per context, the open scopes (generator frames), innermost last
    raising,        \* per context, the fault now propagating (None when none)
    scope_log,      \* history: who entered each scope and how it was left
    \* ---- the event queue and the batching worker ----
    _queue,         \* self._queue, oldest event first
    _shutdown,      \* self._shutdown (the threading.Event) is set
    w_pc,           \* the worker: "top" (loop test), "get", "flush", "exited"
    batch,          \* the worker's local batch
    w_trigger,      \* why the worker decided to flush the batch it is delivering
    w_waited,       \* time the worker has spent in the current queue.get
    since_flush,    \* time.time() - last_flush, capped at FlushInterval
    flush_elapsed,  \* time since the worker read "now" for the flush under way
    sd_pc,          \* the caller of shutdown: "idle", "join", "drain", "flush", "returned"
    remaining,      \* shutdown's local list
    attempts,       \* history: the delivery attempts (client.post calls) so far
    bt_log,         \* history: events put so far, events put before shutdown, faults seen
    \* ---- the backend store behind POST /ingest ----
    st_runs,        \* the runs table (rows in insertion order)
    st_steps,       \* the steps table
    st_emitted,     \* the events the client has emitted (what can arrive)
    st_ingested,    \* history: the events of the committed requests, in order
    st_last,        \* history: the last request and its HTTP status
    st_submitted,   \* history: how many events have been submitted
    fn_resp         \* the response of the last GET /analyze/{run_id}

sm_vars == <<sm_pc, sm_run, sm_cands, sm_verd, sm_i, sm_surv, sm_hist, sm_ret, sm_now>>
cx_vars == <<_current_run, _current_step, run_dicts, step_dicts, frames, raising, scope_log>>
bt_vars == <<_shutdown, w_pc, batch, w_trigger, w_waited, since_flush, flush_elapsed,
             sd_pc, remaining, attempts, bt_log>>

st_vars == <<st_runs, st_steps, st_emitted, st_ingested, st_last, st_submitted, fn_resp>>

vars == <<sm_vars, cx_vars, _queue, bt_vars, st_vars>>

None == "None"

(***************************************************************************)
(* Bounds of the model.                                                    *)
(***************************************************************************)
MaxCands == 3
\* scopes entered in all, over all contexts (run, step and inert step scopes)
MaxScopes == 3
\* events the producers put in all
MaxEvents == 3
\* the configured batch_size
BatchSize == 2
\* the configured flush_interval, in units of the queue.get timeout (0.5 s)
FlushInterval == 2
\* steps of the run whose funnel is reconstructed
MaxFunnelSteps == 2
\* events submitted to POST /ingest in all
MaxIngest == 3

(***************************************************************************)
(* Values.                                                                 *)
(***************************************************************************)
\* Candidate items; "obj" stands for an object json.dumps rejects.
Items == {"a", "obj"}
JsonItems == {"a"}
\* Reasons a filter_fn can give with a rejection: None, the empty string
\* (falsy in Python) and two non-empty reasons.
Reasons == {None, "", "price_too_high", "rating_too_low"}
Verdicts == [accepted : BOOLEAN, reason : Reasons]

SeqsUpTo(S, n) == UNION {[1..k -> S] : k \in 0..n}

EmptyDict == <<>>

(***************************************************************************)
(* XRayClient._serialize: the object itself when json.dumps accepts it,    *)
(* its string form otherwise.  A list is accepted only if every element is.*)
(***************************************************************************)
StrOf(obj) == [str |-> obj]

JsonSerializable(obj) ==
    IF obj \in Items THEN obj \in JsonItems
    ELSE \A k \in DOMAIN obj : obj[k] \in JsonItems

_serialize(obj) ==
    IF obj = None THEN None
    ELSE IF JsonSerializable(obj) THEN obj
    ELSE StrOf(obj)

(***************************************************************************)
(* process_candidates, the filter-only branch (no current run):            *)
(*   [c for c in candidates if filter_fn(c)[0]]                            *)
(***************************************************************************)
RECURSIVE FilterOnly(_, _)
FilterOnly(cands, verd) ==
    IF cands = <<>> THEN <<>>
    ELSE LET rest == FilterOnly(Tail(cands), Tail(verd))
         IN  IF Head(verd).accepted THEN <<Head(cands)>> \o rest ELSE rest

(***************************************************************************)
(* process_candidates, the body of the for loop for one candidate.         *)
(***************************************************************************)
\* reason or "unknown"
ReasonKey(reason) == IF reason = None \/ reason = "" THEN "unknown" ELSE reason

\* rejection_histogram[reason_key] = rejection_histogram.get(reason_key, 0) + 1
HistInc(hist, key) ==
    IF key \in DOMAIN hist
    THEN [hist EXCEPT ![key] = @ + 1]
    ELSE [k \in DOMAIN hist \cup {key} |-> IF k = key THEN 1 ELSE hist[k]]

SurvivorsAfter(surv, candidate, verdict) ==
    IF verdict.accepted THEN Append(surv, candidate) ELSE surv

\* Mutant: a rejection without a reason is not counted.
HistAfter_DropsUnknown(hist, verdict) ==
    IF verdict.accepted \/ verdict.reason = None THEN hist
    ELSE HistInc(hist, ReasonKey(verdict.reason))

HistAfter(hist, verdict) ==
    IF verdict.accepted THEN hist ELSE HistInc(hist, ReasonKey(verdict.reason))

(***************************************************************************)
(* process_candidates, the step record it builds and the event it puts.    *)
(* Division is kept exact as the pair <<numerator, denominator>>.          *)
(***************************************************************************)
DropRate(total_count, survivor_count) ==
    IF total_count > 0 THEN <<total_count - survivor_count, total_count>> ELSE <<0, 1>>

SummaryStepData(step_id, run_id, cands, surv, hist, started_at, completed_at) ==
    [ id      |-> step_id,
      run_id  |-> run_id,
      name    |-> "filter",
      type    |-> "filter",
      inputs  |-> [ candidate_count |-> Len(cands),
                    sample_input |-> IF cands # <<>> THEN _serialize(cands[1]) ELSE None ],
      outputs |-> [ survivor_count |-> Len(surv),
                    survivors |-> _serialize(surv) ],
      metadata |-> [ rejection_histogram |-> hist,
                     drop_rate |-> DropRate(Len(cands), Len(surv)),
                     total_count |-> Len(cands) ],
      started_at |-> started_at,
      completed_at |-> completed_at ]

StepCompleteEvent(step_data) == [type |-> "step_complete", data |-> step_data]

(***************************************************************************)
(* The summarizer as a process: one call of process_candidates.            *)
(***************************************************************************)
CtxIdle ==
    /\ _current_run = <<>>
    /\ _current_step = <<>>
    /\ run_dicts = <<>>
    /\ step_dicts = <<>>
    /\ frames = <<>>
    /\ raising = <<>>
    /\ scope_log = <<>>

BatchIdle ==
    /\ _shutdown = FALSE
    /\ w_pc = "idle"
    /\ batch = <<>>
    /\ w_trigger = "none"
    /\ w_waited = 0
    /\ since_flush = 0
    /\ flush_elapsed = 0
    /\ sd_pc = "idle"
    /\ remaining = <<>>
    /\ attempts = <<>>
    /\ bt_log = <<>>

StoreIdle ==
    /\ st_runs = <<>>
    /\ st_steps = <<>>
    /\ st_emitted = {}
    /\ st_ingested = <<>>
    /\ st_last = [events |-> <<>>, status |-> 0]
    /\ st_submitted = 0
    /\ fn_resp = [status |-> 0]

SummInit ==
    /\ CtxIdle
    /\ BatchIdle
    /\ StoreIdle
    /\ sm_pc = "call"
    /\ sm_run \in {None, "run1"}
    /\ sm_cands \in SeqsUpTo(Items, MaxCands)
    /\ sm_verd \in [1..Len(sm_cands) -> Verdicts]
    /\ sm_i = 0
    /\ sm_surv = <<>>
    /\ sm_hist = EmptyDict
    /\ sm_ret = None
    /\ sm_now = 0
    /\ _queue = <<>>

\* run_data is None: return the filtered list, nothing else happens.
SummFilterOnly ==
    /\ sm_pc = "call"
    /\ sm_run = None
    /\ sm_ret' = FilterOnly(sm_cands, sm_verd)
    /\ sm_pc' = "returned"
    /\ UNCHANGED <<sm_run, sm_cands, sm_verd, sm_i, sm_surv, sm_hist, sm_now, _queue>>
    /\ UNCHANGED <<cx_vars, bt_vars, st_vars>>

\* A run is current: initialise the locals and enter the loop.
SummEnterLoop ==
    /\ sm_pc = "call"
    /\ sm_run # None
    /\ sm_pc' = "loop"
    /\ UNCHANGED <<sm_run, sm_cands, sm_verd, sm_i, sm_surv, sm_hist, sm_ret, sm_now, _queue>>
    /\ UNCHANGED <<cx_vars, bt_vars, st_vars>>

\* One iteration of "for candidate in candidates"; the clock moves on while
\* filter_fn runs, by a tick or by less than the clock shows.
SummIter ==
    /\ sm_pc = "loop"
    /\ sm_i < Len(sm_cands)
    /\ sm_i' = sm_i + 1
    /\ sm_now' \in {sm_now, sm_now + 1}
    /\ sm_surv' = SurvivorsAfter(sm_surv, sm_cands[sm_i + 1], sm_verd[sm_i + 1])
    /\ sm_hist' = HistAfter(sm_hist, sm_verd[sm_i + 1])
    /\ UNCHANGED <<sm_pc, sm_run, sm_cands, sm_verd, sm_ret, _queue>>
    /\ UNCHANGED <<cx_vars, bt_vars, st_vars>>

\* After the loop: build step_data (its two timestamps are two readings of
\* the clock made one after the other while the dict is built), put the
\* event, return the survivors.
SummEmit ==
    /\ sm_pc = "loop"
    /\ sm_i = Len(sm_cands)
    /\ \E later \in {sm_now, sm_now + 1} :
         /\ _queue' = Append(_queue,
                 StepCompleteEvent(SummaryStepData("step1", sm_run, sm_cands, sm_surv,
                                                   sm_hist, sm_now, later)))
         /\ sm_now' = later
    /\ sm_ret' = sm_surv
    /\ sm_pc' = "returned"
    /\ UNCHANGED <<sm_run, sm_cands, sm_verd, sm_i, sm_surv, sm_hist>>
    /\ UNCHANGED <<cx_vars, bt_vars, st_vars>>

SummNext == SummFilterOnly \/ SummEnterLoop \/ SummIter \/ SummEmit

SpecSumm == SummInit /\ [][SummNext]_vars

(***************************************************************************)
(* C1: process_candidates returns exactly the candidates filter_fn         *)
(* accepted, in their original relative order, with or without a current   *)
(* run; and with a current run the values of the emitted                   *)
(* rejection_histogram sum to len(candidates) - len(survivors).            *)
(***************************************************************************)
AcceptedPositions == {i \in 1..Len(sm_cands) : sm_verd[i].accepted}

\* ret lists the candidates at the accepted positions, by increasing position.
IsAcceptedSubsequence(ret) ==
    /\ Len(ret) = Cardinality(AcceptedPositions)
    /\ \E pos \in [1..Len(ret) -> AcceptedPositions] :
          /\ \A j, k \in 1..Len(ret) : j < k => pos[j] < pos[k]
          /\ \A j \in 1..Len(ret) : ret[j] = sm_cands[pos[j]]

RECURSIVE SumOver(_, _)
SumOver(hist, keys) ==
    IF keys = {} THEN 0
    ELSE LET k == CHOOSE x \in keys : TRUE
         IN  hist[k] + SumOver(hist, keys \ {k})

HistSum(hist) == SumOver(hist, DOMAIN hist)

Thm_C1_SummarizeReturnsAccepted ==
    sm_pc = "returned" =>
        /\ IsAcceptedSubsequence(sm_ret)
        /\ sm_run = None => _queue = <<>>
        /\ sm_run # None =>
              /\ Len(_queue) = 1
              /\ HistSum(_queue[1].data.metadata.rejection_histogram)
                    = Len(sm_cands) - Len(sm_ret)

\* A call under a current run that kept one candidate and rejected two,
\* one of them without a reason.
Wit_C1_MixedVerdicts ==
    /\ sm_pc = "returned"
    /\ sm_run # None
    /\ Len(sm_cands) = 3
    /\ Len(sm_ret) = 1
    /\ \E i \in 1..3 : ~sm_verd[i].accepted /\ sm_verd[i].reason = None


(***************************************************************************)
(* The context tracker: start_run and step over the two ContextVars.       *)
(***************************************************************************)
\* Logical execution contexts (threads, each with a context of its own).
Contexts == {"c1", "c2"}

\* What the body of a scope can raise.  "Exception" stands for every class
\* "except Exception" catches; "BaseException" for the ones it does not
\* (KeyboardInterrupt, SystemExit, GeneratorExit, asyncio.CancelledError).
Faults == { [kind |-> "Exception", msg |-> "boom"],
            [kind |-> "BaseException", msg |-> "cancelled"] }

\* No fault is propagating.
NoFault == [kind |-> "None", msg |-> ""]

\* The ContextVars' default (None), as a reference.
NoRef == 0

\* The cost argument of step; NoCost stands for None (not given).
NoCost == -1
StepCosts == {NoCost, 2}

\* Python dicts: a record whose domain is the set of keys present.
DictSet(d, key, value) ==
    [k \in DOMAIN d \cup {key} |-> IF k = key THEN value ELSE d[k]]

DictGet(d, key, default) == IF key \in DOMAIN d THEN d[key] ELSE default

\* contextvars.ContextVar: one value per context, None by default.
\* set returns a token holding the value it replaced; reset puts it back.
CtxDefault == [c \in Contexts |-> NoRef]

CtxGet(cv, c) == cv[c]

\* Mutant: a module-level global shared by all contexts.
CtxSet_Global(cv, c, value) == [x \in DOMAIN cv |-> value]

CtxSet(cv, c, value) == [cv EXCEPT ![c] = value]

\* Mutant: the exit clears the variable instead of restoring the token.
CtxReset_Clears(cv, c, token) == [cv EXCEPT ![c] = NoRef]

CtxReset(cv, c, token) == [cv EXCEPT ![c] = token]

\* run_data as start_run creates it (name, tags, started_at, steps are inputs
\* the tracker never reads back; "t" stands for a timestamp).
NewRunData(run_id) ==
    [id |-> run_id, name |-> "run", status |-> "RUNNING", started_at |-> "t"]

CompleteRun(d) == DictSet(DictSet(d, "status", "COMPLETED"), "completed_at", "t")

\* Mutant: the failure path forgets the error text.
FailRun_NoError(d, fault) ==
    DictSet(DictSet(d, "status", "FAILED"), "completed_at", "t")

FailRun(d, fault) ==
    DictSet(DictSet(DictSet(d, "status", "FAILED"), "error", fault.msg), "completed_at", "t")

\* Mutant: the step record is not parented to the current run.
NewStepData_NoParent(step_id, run, step_type, cost) ==
    [id |-> step_id, run_id |-> NoRef, name |-> "step",
     type |-> step_type, started_at |-> "t"]

\* step_data as step creates it; the cost key is present only when given.
NewStepData(step_id, run, step_type, cost) ==
    LET d == [id |-> step_id, run_id |-> run.id, name |-> "step",
              type |-> step_type, started_at |-> "t"]
    IN  IF cost # NoCost THEN DictSet(d, "cost", cost) ELSE d

CompleteStep(d) == DictSet(d, "completed_at", "t")

FailStep(d, fault) == DictSet(DictSet(d, "error", fault.msg), "completed_at", "t")

\* The events put on the queue hold a reference to the dict, not a copy.
Event(type, ref) == [type |-> type, data |-> ref]

\* Mutant: a queue that hands out the newest event first.
QueuePut_Lifo(q, event) == <<event>> \o q

\* self._queue.put(event) on the FIFO queue.Queue
QueuePut(q, event) == Append(q, event)

\* The process_candidates calls the application makes, and the log before
\* the first of them.
SummaryCalls ==
    { [cands |-> <<>>, verd |-> <<>>],
      [cands |-> <<"a", "obj">>,
       verd |-> <<[accepted |-> TRUE, reason |-> None],
                  [accepted |-> FALSE, reason |-> ""]>>] }

NoSummary ==
    [calls |-> 0, filtered |-> 0, raised |-> 0, ctx |-> "none", run |-> NoRef,
     cands |-> <<>>, verd |-> <<>>, ret |-> <<>>, fault |-> NoFault]

Top(c) == frames[c][Len(frames[c])]
InBody(c) == frames[c] # <<>>
\* Scopes entered and process_candidates calls made, in all.
ScopesEntered ==
    Len(run_dicts) + Len(step_dicts) + scope_log.inert + scope_log.summary.filtered
        + scope_log.summary.raised
CanEnter(c) ==
    /\ raising[c] = NoFault
    /\ ScopesEntered < MaxScopes
Push(c, frame) == [frames EXCEPT ![c] = Append(@, frame)]
Pop(c) == [frames EXCEPT ![c] = SubSeq(@, 1, Len(@) - 1)]

SummIdle ==
    /\ sm_pc = "idle"
    /\ sm_run = None
    /\ sm_cands = <<>>
    /\ sm_verd = <<>>
    /\ sm_i = 0
    /\ sm_surv = <<>>
    /\ sm_hist = EmptyDict
    /\ sm_ret = None
    /\ sm_now = 0

CtxInit ==
    /\ SummIdle
    /\ BatchIdle
    /\ StoreIdle
    /\ _current_run = CtxDefault
    /\ _current_step = CtxDefault
    /\ run_dicts = <<>>
    /\ step_dicts = <<>>
    /\ frames = [c \in Contexts |-> <<>>]
    /\ raising = [c \in Contexts |-> NoFault]
    /\ _queue = <<>>
    /\ scope_log = [run |-> <<>>, step |-> <<>>, inert |-> 0, summary |-> NoSummary]

\* start_run up to the yield: create run_data, publish it, keep the token.
EnterRun(c) ==
    /\ CanEnter(c)
    /\ LET ref == Len(run_dicts) + 1
           prev == CtxGet(_current_run, c)
       IN  /\ run_dicts' = Append(run_dicts, NewRunData(ref))
           /\ _current_run' = CtxSet(_current_run, c, ref)
           /\ frames' = Push(c, [kind |-> "run", ref |-> ref, token |-> prev])
           /\ scope_log' = [scope_log EXCEPT !.run =
                  Append(@, [ctx |-> c, prev |-> prev, exited |-> FALSE,
                             fault |-> NoFault, after |-> NoRef])]
    /\ UNCHANGED <<_current_step, step_dicts, raising, _queue, sm_vars, bt_vars, st_vars>>

\* step with no current run: the generator yields {} and does nothing else.
EnterStepInert(c) ==
    /\ CanEnter(c)
    /\ CtxGet(_current_run, c) = NoRef
    /\ frames' = Push(c, [kind |-> "inert", ref |-> NoRef, token |-> NoRef])
    /\ scope_log' = [scope_log EXCEPT !.inert = @ + 1]
    /\ UNCHANGED <<_current_run, _current_step, run_dicts, step_dicts, raising,
                   _queue, sm_vars, bt_vars, st_vars>>

\* step with a current run, up to the yield.
EnterStep(c) ==
    /\ CanEnter(c)
    /\ CtxGet(_current_run, c) # NoRef
    /\ \E cost \in StepCosts :
         LET ref == Len(step_dicts) + 1
             run == run_dicts[CtxGet(_current_run, c)]
             prev == CtxGet(_current_step, c)
         IN  /\ step_dicts' = Append(step_dicts, NewStepData(ref, run, "logic", cost))
             /\ _current_step' = CtxSet(_current_step, c, ref)
             /\ frames' = Push(c, [kind |-> "step", ref |-> ref, token |-> prev])
             /\ scope_log' = [scope_log EXCEPT !.step =
                    Append(@, [ctx |-> c, prev |-> prev, exited |-> FALSE,
                               fault |-> NoFault, after |-> NoRef])]
    /\ UNCHANGED <<_current_run, run_dicts, raising, _queue, sm_vars, bt_vars, st_vars>>

\* process_candidates as one call made by the application in context c:
\* the whole loop, then the record and the event (or, with no current run,
\* the filtered list only).
RECURSIVE SummaryLoop(_, _, _, _)
SummaryLoop(surv, hist, cands, verd) ==
    IF cands = <<>> THEN [survivors |-> surv, rejection_histogram |-> hist]
    ELSE SummaryLoop(SurvivorsAfter(surv, Head(cands), Head(verd)),
                     HistAfter(hist, Head(verd)), Tail(cands), Tail(verd))

\* Mutant: the event is put whether or not a run is current.
SummaryPut_Always(q, run_ref, event) == Append(q, event)

\* if not run_data: return [...], before anything is put.
SummaryPut(q, run_ref, event) == IF run_ref = NoRef THEN q ELSE Append(q, event)

Summarize(c) ==
    /\ CanEnter(c)
    /\ \E call \in SummaryCalls :
         LET run_ref == CtxGet(_current_run, c)
             ref == Len(step_dicts) + 1
             res == SummaryLoop(<<>>, EmptyDict, call.cands, call.verd)
             ret == IF run_ref = NoRef THEN FilterOnly(call.cands, call.verd)
                    ELSE res.survivors
         IN  /\ _queue' = SummaryPut(_queue, run_ref, Event("step_complete", ref))
             /\ step_dicts' =
                    IF run_ref = NoRef THEN step_dicts
                    ELSE Append(step_dicts,
                                SummaryStepData(ref, run_dicts[run_ref].id, call.cands,
                                                res.survivors, res.rejection_histogram,
                                                "t", "t"))
             /\ scope_log' =
                    [scope_log EXCEPT
                       !.step = IF run_ref = NoRef THEN @
                                ELSE Append(@, [ctx |-> c, prev |-> CtxGet(_current_step, c),
                                                exited |-> TRUE, fault |-> NoFault,
                                                after |-> CtxGet(_current_step, c)]),
                       !.summary = [calls |-> @.calls + 1,
                                    filtered |-> IF run_ref = NoRef THEN @.filtered + 1
                                                 ELSE @.filtered,
                                    raised |-> @.raised,
                                    ctx |-> c, run |-> run_ref,
                                    cands |-> call.cands, verd |-> call.verd,
                                    ret |-> ret, fault |-> NoFault]]
    /\ UNCHANGED <<_current_run, _current_step, run_dicts, frames, raising,
                   sm_vars, bt_vars, st_vars>>

\* Mutant: process_candidates reports the fault of filter_fn as a failed step.
PutOnClassifyFault_StepFailed(q, fault) == Append(q, Event("step_failed", NoRef))

\* No try/except surrounds the calls of filter_fn: nothing is put when one
\* of them raises.
PutOnClassifyFault(q, fault) == q

\* process_candidates when filter_fn raises for one of the candidates, in
\* the list comprehension (no current run) or in the for loop: the fault
\* leaves the call, whose locals (survivors, rejection_histogram) are gone.
SummarizeRaises(c) ==
    /\ CanEnter(c)
    /\ \E call \in SummaryCalls, f \in Faults :
         /\ call.cands # <<>>
         /\ raising' = [raising EXCEPT ![c] = f]
         /\ _queue' = PutOnClassifyFault(_queue, f)
         /\ scope_log' =
                [scope_log EXCEPT
                   !.summary = [calls |-> @.calls + 1, filtered |-> @.filtered,
                                raised |-> @.raised + 1,
                                ctx |-> c, run |-> CtxGet(_current_run, c),
                                cands |-> call.cands, verd |-> call.verd,
                                ret |-> <<>>, fault |-> f]]
    /\ UNCHANGED <<_current_run, _current_step, run_dicts, step_dicts, frames,
                   sm_vars, bt_vars, st_vars>>

\* The body of the innermost scope raises.
Raise(c) ==
    /\ InBody(c)
    /\ raising[c] = NoFault
    /\ \E f \in Faults : raising' = [raising EXCEPT ![c] = f]
    /\ UNCHANGED <<_current_run, _current_step, run_dicts, step_dicts, frames,
                   _queue, scope_log, sm_vars, bt_vars, st_vars>>

\* The application catches the propagating fault (a try/except of its own,
\* in the body of the enclosing scope or outside every scope).
Catch(c) ==
    /\ raising[c] # NoFault
    /\ frames[c] = <<>> \/ InBody(c)
    /\ raising' = [raising EXCEPT ![c] = NoFault]
    /\ UNCHANGED <<_current_run, _current_step, run_dicts, step_dicts, frames,
                   _queue, scope_log, sm_vars, bt_vars, st_vars>>

LogExit(log, after, fault) ==
    [log EXCEPT !.exited = TRUE, !.fault = fault, !.after = after]

\* start_run after the yield when the body ended normally: mark COMPLETED,
\* put run_complete; then the finally clause resets the token.
ExitRunNormal(c) ==
    /\ InBody(c) /\ Top(c).kind = "run"
    /\ raising[c] = NoFault
    /\ run_dicts' = [run_dicts EXCEPT ![Top(c).ref] = CompleteRun(@)]
    /\ _queue' = QueuePut(_queue, Event("run_complete", Top(c).ref))
    /\ _current_run' = CtxReset(_current_run, c, Top(c).token)
    /\ frames' = Pop(c)
    /\ scope_log' = [scope_log EXCEPT !.run[Top(c).ref] =
                        LogExit(@, CtxGet(_current_run', c), NoFault)]
    /\ UNCHANGED <<_current_step, step_dicts, raising, sm_vars, bt_vars, st_vars>>

\* start_run after the yield when the body raised: "except Exception" marks
\* FAILED, puts run_failed and re-raises; any other fault passes the except
\* clause by.  Either way the finally clause resets the token before the
\* fault reaches the caller.
ExitRunFault(c) ==
    /\ InBody(c) /\ Top(c).kind = "run"
    /\ raising[c] # NoFault
    /\ IF raising[c].kind = "Exception"
       THEN /\ run_dicts' = [run_dicts EXCEPT ![Top(c).ref] = FailRun(@, raising[c])]
            /\ _queue' = QueuePut(_queue, Event("run_failed", Top(c).ref))
       ELSE UNCHANGED <<run_dicts, _queue>>
    /\ _current_run' = CtxReset(_current_run, c, Top(c).token)
    /\ frames' = Pop(c)
    /\ scope_log' = [scope_log EXCEPT !.run[Top(c).ref] =
                        LogExit(@, CtxGet(_current_run', c), raising[c])]
    /\ UNCHANGED <<_current_step, step_dicts, raising, sm_vars, bt_vars, st_vars>>

\* step after the yield, normal end: completed_at, put step_complete, reset.
ExitStepNormal(c) ==
    /\ InBody(c) /\ Top(c).kind = "step"
    /\ raising[c] = NoFault
    /\ step_dicts' = [step_dicts EXCEPT ![Top(c).ref] = CompleteStep(@)]
    /\ _queue' = QueuePut(_queue, Event("step_complete", Top(c).ref))
    /\ _current_step' = CtxReset(_current_step, c, Top(c).token)
    /\ frames' = Pop(c)
    /\ scope_log' = [scope_log EXCEPT !.step[Top(c).ref] =
                        LogExit(@, CtxGet(_current_step', c), NoFault)]
    /\ UNCHANGED <<_current_run, run_dicts, raising, sm_vars, bt_vars, st_vars>>

\* step after the yield, the body raised.
ExitStepFault(c) ==
    /\ InBody(c) /\ Top(c).kind = "step"
    /\ raising[c] # NoFault
    /\ IF raising[c].kind = "Exception"
       THEN /\ step_dicts' = [step_dicts EXCEPT ![Top(c).ref] = FailStep(@, raising[c])]
            /\ _queue' = QueuePut(_queue, Event("step_failed", Top(c).ref))
       ELSE UNCHANGED <<step_dicts, _queue>>
    /\ _current_step' = CtxReset(_current_step, c, Top(c).token)
    /\ frames' = Pop(c)
    /\ scope_log' = [scope_log EXCEPT !.step[Top(c).ref] =
                        LogExit(@, CtxGet(_current_step', c), raising[c])]
    /\ UNCHANGED <<_current_run, run_dicts, raising, sm_vars, bt_vars, st_vars>>

\* The inert step scope ends (return after the yield, or the fault passes).
ExitInert(c) ==
    /\ InBody(c) /\ Top(c).kind = "inert"
    /\ frames' = Pop(c)
    /\ UNCHANGED <<_current_run, _current_step, run_dicts, step_dicts, raising,
                   _queue, scope_log, sm_vars, bt_vars, st_vars>>

CtxNext ==
    \E c \in Contexts :
        \/ EnterRun(c)
        \/ EnterStepInert(c)
        \/ EnterStep(c)
        \/ Raise(c)
        \/ Catch(c)
        \/ ExitRunNormal(c)
        \/ ExitRunFault(c)
        \/ ExitStepNormal(c)
        \/ ExitStepFault(c)
        \/ ExitInert(c)
        \/ Summarize(c)
        \/ SummarizeRaises(c)

SpecCtx == CtxInit /\ [][CtxNext]_vars

(***************************************************************************)
(* Properties of the context tracker.                                      *)
(***************************************************************************)
RunRefs == 1..Len(run_dicts)
StepRefs == 1..Len(step_dicts)

\* The types of the events in the queue that refer to run i / step j, in
\* queue order.
RECURSIVE TypesOf(_, _, _)
TypesOf(q, types, ref) ==
    IF q = <<>> THEN <<>>
    ELSE LET rest == TypesOf(Tail(q), types, ref)
         IN  IF Head(q).type \in types /\ Head(q).data = ref
             THEN <<Head(q).type>> \o rest ELSE rest

RunEvents(i) == TypesOf(_queue, {"run_complete", "run_failed"}, i)
StepEvents(j) == TypesOf(_queue, {"step_complete", "step_failed"}, j)

\* The reference of the innermost open scope of a kind in a context's frames.
RECURSIVE Innermost(_, _)
Innermost(fs, kind) ==
    IF fs = <<>> THEN NoRef
    ELSE IF fs[Len(fs)].kind = kind THEN fs[Len(fs)].ref
    ELSE Innermost(SubSeq(fs, 1, Len(fs) - 1), kind)

(***************************************************************************)
(* C2, as stated: every exited run scope and tracked step scope has put     *)
(* exactly one event: the completion event on a normal exit, the failure    *)
(* event carrying the fault's description (and status FAILED for a run) on  *)
(* an exit by a fault, the association being restored when the fault        *)
(* reaches the caller.                                                      *)
(***************************************************************************)
RunExitAsClaimed(i) ==
    LET log == scope_log.run[i]
        d == run_dicts[i]
    IN  log.exited =>
          /\ log.after = log.prev
          /\ IF log.fault = NoFault
             THEN RunEvents(i) = <<"run_complete">> /\ d.status = "COMPLETED"
             ELSE /\ RunEvents(i) = <<"run_failed">>
                  /\ d.status = "FAILED"
                  /\ DictGet(d, "error", None) = log.fault.msg

StepExitAsClaimed(j) ==
    LET log == scope_log.step[j]
        d == step_dicts[j]
    IN  log.exited =>
          /\ log.after = log.prev
          /\ IF log.fault = NoFault
             THEN StepEvents(j) = <<"step_complete">>
             ELSE /\ StepEvents(j) = <<"step_failed">>
                  /\ DictGet(d, "error", None) = log.fault.msg

RunExitAmended(i) ==
    LET log == scope_log.run[i]
        d == run_dicts[i]
    IN  IF ~log.exited THEN RunEvents(i) = <<>>
        ELSE /\ log.after = log.prev
             /\ CASE log.fault = NoFault ->
                       RunEvents(i) = <<"run_complete">> /\ d.status = "COMPLETED"
                  [] log.fault.kind = "Exception" ->
                       /\ RunEvents(i) = <<"run_failed">>
                       /\ d.status = "FAILED"
                       /\ DictGet(d, "error", None) = log.fault.msg
                  [] OTHER ->
                       /\ RunEvents(i) = <<>>
                       /\ d.status = "RUNNING"
                       /\ "error" \notin DOMAIN d

StepExitAmended(j) ==
    LET log == scope_log.step[j]
        d == step_dicts[j]
    IN  IF ~log.exited THEN StepEvents(j) = <<>>
        ELSE /\ log.after = log.prev
             /\ CASE log.fault = NoFault ->
                       StepEvents(j) = <<"step_complete">>
                  [] log.fault.kind = "Exception" ->
                       /\ StepEvents(j) = <<"step_failed">>
                       /\ DictGet(d, "error", None) = log.fault.msg
                  [] OTHER ->
                       /\ StepEvents(j) = <<>>
                       /\ "error" \notin DOMAIN d

Thm_C3_CurrentRunRestored ==
    /\ \A i \in RunRefs :
          scope_log.run[i].exited => scope_log.run[i].after = scope_log.run[i].prev
    /\ \A c \in Contexts : CtxGet(_current_run, c) = Innermost(frames[c], "run")

\* A nested run scope was left by a fault and the enclosing run, still open,
\* is current again.
Wit_C3_NestedRunLeftByFault ==
    \E i \in RunRefs, c \in Contexts :
        /\ scope_log.run[i].exited
        /\ scope_log.run[i].fault # NoFault
        /\ scope_log.run[i].prev # NoRef
        /\ CtxGet(_current_run, c) = scope_log.run[i].prev
        /\ raising[c] # NoFault

(***************************************************************************)
(* C4: the current run and current step are local to a context: what a      *)
(* context reads as its current run or step was published by that context,  *)
(* and a step is parented to a run of the context that entered the step.    *)
(***************************************************************************)
Thm_C4_AssociationsAreContextLocal ==
    /\ \A c \in Contexts :
          /\ CtxGet(_current_run, c) # NoRef =>
                scope_log.run[CtxGet(_current_run, c)].ctx = c
          /\ CtxGet(_current_step, c) # NoRef =>
                scope_log.step[CtxGet(_current_step, c)].ctx = c
    /\ \A j \in StepRefs :
          scope_log.run[step_dicts[j].run_id].ctx = scope_log.step[j].ctx

\* Two contexts are inside run scopes at once, one of them inside a step.
Wit_C4_TwoContextsInScopes ==
    /\ \A c \in Contexts : CtxGet(_current_run, c) # NoRef
    /\ \E c \in Contexts : CtxGet(_current_step, c) # NoRef

(***************************************************************************)
(* The event batcher: _worker_loop, _flush_batch and shutdown.             *)
(* Producers are abstract here: the events are numbered in put order.      *)
(* Time is counted in units of the queue.get timeout.                      *)
(***************************************************************************)
\* queue.get(timeout=0.5): one unit
GetTimeout == 1

\* What client.post / raise_for_status can end in.
DeliveryOutcomes == {"ok", "timeout", "connection_error", "bad_status"}

\* The exception classes of the failed outcomes all derive from Exception.
IsException(outcome) == outcome \in {"timeout", "connection_error", "bad_status"}

\* Mutant: _flush_batch without its try/except.
FlushBatchRaises_NoExcept(outcome) == outcome # "ok"

\* _flush_batch: "except Exception: pass" around the post; TRUE when a
\* fault leaves _flush_batch.
FlushBatchRaises(outcome) == outcome # "ok" /\ ~IsException(outcome)

\* Mutant: only the size trigger.
ShouldFlush_SizeOnly(batch_len, event_is_none, idle) == batch_len >= BatchSize

\* Mutant: the size trigger one event late.
ShouldFlush_SizeLate(batch_len, event_is_none, idle) ==
    \/ batch_len > BatchSize
    \/ (event_is_none /\ batch_len > 0 /\ idle >= FlushInterval)

\* Mutant: the time trigger only in a cycle that received an event.
ShouldFlush_TimeOnEvent(batch_len, event_is_none, idle) ==
    /\ \/ batch_len >= BatchSize
       \/ (~event_is_none /\ batch_len > 0 /\ idle >= FlushInterval)
    /\ batch_len > 0

\* should_flush and len(batch) > 0, with idle = now - last_flush
ShouldFlush(batch_len, event_is_none, idle) ==
    /\ \/ batch_len >= BatchSize
       \/ (event_is_none /\ batch_len > 0 /\ idle >= FlushInterval)
    /\ batch_len > 0

\* Mutant: the new event goes to the front of the batch.
BatchAppend_Front(b, event) == <<event>> \o b

\* batch.append(event)
BatchAppend(b, event) == Append(b, event)

\* Mutant: the worker keeps the delivered events in its batch.
BatchAfterFlush_Kept(b) == b

\* batch = [] after _flush_batch has returned
BatchAfterFlush(b) == <<>>

Trigger(batch_len) == IF batch_len >= BatchSize THEN "size" ELSE "time"

Attempt(events, outcome, by, trigger) ==
    [batch |-> events, outcome |-> outcome, by |-> by, trigger |-> trigger]

Cap(n) == IF n > FlushInterval THEN FlushInterval ELSE n

BatchInit ==
    /\ SummIdle
    /\ CtxIdle
    /\ StoreIdle
    /\ _queue = <<>>
    /\ _shutdown = FALSE
    /\ w_pc = "top"
    /\ batch = <<>>
    /\ w_trigger = "none"
    /\ w_waited = 0
    /\ since_flush = 0
    /\ flush_elapsed = 0
    /\ sd_pc = "idle"
    /\ remaining = <<>>
    /\ attempts = <<>>
    /\ bt_log = [put |-> 0, before_shutdown |-> 0, worker_fault |-> FALSE,
                 shutdown_fault |-> FALSE]

\* A producer puts the next event; put on the unbounded queue never blocks
\* and never fails.
Put ==
    /\ bt_log.put < MaxEvents
    /\ _queue' = Append(_queue, bt_log.put + 1)
    /\ bt_log' = [bt_log EXCEPT !.put = @ + 1]
    /\ UNCHANGED <<_shutdown, w_pc, batch, w_trigger, w_waited, since_flush,
                   flush_elapsed, sd_pc, remaining, attempts, sm_vars, cx_vars, st_vars>>

\* One unit of time passes.
Tick ==
    /\ since_flush' = Cap(since_flush + 1)
    /\ flush_elapsed' = IF w_pc = "flush" THEN Cap(flush_elapsed + 1) ELSE flush_elapsed
    /\ w_waited' = IF w_pc = "get" /\ w_waited < GetTimeout THEN w_waited + 1 ELSE w_waited
    /\ \/ since_flush' # since_flush
       \/ flush_elapsed' # flush_elapsed
       \/ w_waited' # w_waited
    /\ UNCHANGED <<_queue, _shutdown, w_pc, batch, w_trigger, sd_pc, remaining,
                   attempts, bt_log, sm_vars, cx_vars, st_vars>>

\* while not self._shutdown.is_set(): the loop goes on into queue.get.
WorkerLoopTest ==
    /\ w_pc = "top"
    /\ ~_shutdown
    /\ w_pc' = "get"
    /\ w_waited' = 0
    /\ UNCHANGED <<_queue, _shutdown, batch, w_trigger, since_flush, flush_elapsed,
                   sd_pc, remaining, attempts, bt_log, sm_vars, cx_vars, st_vars>>

\* The loop test finds _shutdown set: _worker_loop returns; its batch goes
\* with it.
WorkerExit ==
    /\ w_pc = "top"
    /\ _shutdown
    /\ w_pc' = "exited"
    /\ UNCHANGED <<_queue, _shutdown, batch, w_trigger, w_waited, since_flush,
                   flush_elapsed, sd_pc, remaining, attempts, bt_log, sm_vars, cx_vars, st_vars>>

\* The rest of one loop pass once queue.get has ended: read now, compute
\* should_flush, and go to _flush_batch or back to the loop test.
AfterGet(new_batch, event_is_none) ==
    /\ batch' = new_batch
    /\ IF ShouldFlush(Len(new_batch), event_is_none, since_flush)
       THEN /\ w_pc' = "flush"
            /\ w_trigger' = Trigger(Len(new_batch))
            /\ flush_elapsed' = 0
       ELSE /\ w_pc' = "top"
            /\ UNCHANGED <<w_trigger, flush_elapsed>>

\* queue.get returns an event.
WorkerGetEvent ==
    /\ w_pc = "get"
    /\ _queue # <<>>
    /\ _queue' = Tail(_queue)
    /\ AfterGet(BatchAppend(batch, Head(_queue)), FALSE)
    /\ UNCHANGED <<_shutdown, w_waited, since_flush, sd_pc, remaining, attempts,
                   bt_log, sm_vars, cx_vars, st_vars>>

\* queue.get raises queue.Empty after its timeout: event = None.
WorkerGetTimeout ==
    /\ w_pc = "get"
    /\ _queue = <<>>
    /\ w_waited >= GetTimeout
    /\ AfterGet(batch, TRUE)
    /\ UNCHANGED <<_queue, _shutdown, w_waited, since_flush, sd_pc, remaining,
                   attempts, bt_log, sm_vars, cx_vars, st_vars>>

\* _flush_batch(batch) ends.  When it returns, batch = [] and last_flush =
\* now; when it raises, the loop's "except Exception" prints and continues
\* with batch and last_flush as they were.
WorkerFlush ==
    /\ w_pc = "flush"
    /\ \E outcome \in DeliveryOutcomes :
         /\ attempts' = Append(attempts, Attempt(batch, outcome, "worker", w_trigger))
         /\ IF FlushBatchRaises(outcome)
            THEN /\ bt_log' = [bt_log EXCEPT !.worker_fault = TRUE]
                 /\ UNCHANGED <<batch, since_flush>>
            ELSE /\ batch' = BatchAfterFlush(batch)
                 /\ since_flush' = flush_elapsed
                 /\ UNCHANGED bt_log
    /\ w_pc' = "top"
    /\ w_trigger' = "none"
    /\ flush_elapsed' = 0
    /\ UNCHANGED <<_queue, _shutdown, w_waited, sd_pc, remaining, sm_vars, cx_vars, st_vars>>

\* shutdown(): the worker thread is alive: set the event and join.
ShutdownCall ==
    /\ sd_pc = "idle"
    /\ IF w_pc # "exited"
       THEN /\ _shutdown' = TRUE
            /\ sd_pc' = "join"
       ELSE /\ sd_pc' = "returned"
            /\ UNCHANGED _shutdown
    /\ bt_log' = [bt_log EXCEPT !.before_shutdown = bt_log.put]
    /\ UNCHANGED <<_queue, w_pc, batch, w_trigger, w_waited, since_flush,
                   flush_elapsed, remaining, attempts, sm_vars, cx_vars, st_vars>>

\* join returns because the worker thread has ended.
JoinWorkerEnded ==
    /\ sd_pc = "join"
    /\ w_pc = "exited"
    /\ sd_pc' = "drain"
    /\ UNCHANGED <<_queue, _shutdown, w_pc, batch, w_trigger, w_waited, since_flush,
                   flush_elapsed, remaining, attempts, bt_log, sm_vars, cx_vars, st_vars>>

\* join returns because its timeout has run out; the worker is still alive.
JoinTimedOut ==
    /\ sd_pc = "join"
    /\ w_pc # "exited"
    /\ sd_pc' = "drain"
    /\ UNCHANGED <<_queue, _shutdown, w_pc, batch, w_trigger, w_waited, since_flush,
                   flush_elapsed, remaining, attempts, bt_log, sm_vars, cx_vars, st_vars>>

\* while not self._queue.empty(): remaining.append(self._queue.get_nowait())
ShutdownDrainOne ==
    /\ sd_pc = "drain"
    /\ _queue # <<>>
    /\ remaining' = Append(remaining, Head(_queue))
    /\ _queue' = Tail(_queue)
    /\ UNCHANGED <<_shutdown, w_pc, batch, w_trigger, w_waited, since_flush,
                   flush_elapsed, sd_pc, attempts, bt_log, sm_vars, cx_vars, st_vars>>

\* The queue is empty: flush remaining if there is any, else return.
ShutdownDrainEnd ==
    /\ sd_pc = "drain"
    /\ _queue = <<>>
    /\ sd_pc' = IF remaining # <<>> THEN "flush" ELSE "returned"
    /\ UNCHANGED <<_queue, _shutdown, w_pc, batch, w_trigger, w_waited, since_flush,
                   flush_elapsed, remaining, attempts, bt_log, sm_vars, cx_vars, st_vars>>

\* self._flush_batch(remaining) ends, and shutdown with it (its local list
\* is gone).
ShutdownFlush ==
    /\ sd_pc = "flush"
    /\ \E outcome \in DeliveryOutcomes :
         /\ attempts' = Append(attempts, Attempt(remaining, outcome, "shutdown", "shutdown"))
         /\ bt_log' = [bt_log EXCEPT !.shutdown_fault = FlushBatchRaises(outcome)]
    /\ sd_pc' = "returned"
    /\ remaining' = <<>>
    /\ UNCHANGED <<_queue, _shutdown, w_pc, batch, w_trigger, w_waited, since_flush,
                   flush_elapsed, sm_vars, cx_vars, st_vars>>

BatchNext ==
    \/ Put
    \/ Tick
    \/ WorkerLoopTest
    \/ WorkerExit
    \/ WorkerGetEvent
    \/ WorkerGetTimeout
    \/ WorkerFlush
    \/ ShutdownCall
    \/ JoinWorkerEnded
    \/ JoinTimedOut
    \/ ShutdownDrainOne
    \/ ShutdownDrainEnd
    \/ ShutdownFlush

SpecBatch == BatchInit /\ [][BatchNext]_vars

(***************************************************************************)
(* Properties of the event batcher.                                        *)
(***************************************************************************)
Range(seq) == {seq[i] : i \in DOMAIN seq}

AttemptedEvents == UNION {Range(attempts[i].batch) : i \in DOMAIN attempts}

\* Events a later delivery attempt could still include.
PendingEvents == Range(_queue) \cup Range(batch) \cup Range(remaining)

(***************************************************************************)
(* C5: fail-open.  The events of a failed delivery attempt are discarded:   *)
(* they are in no other attempt and nowhere a later attempt could take them *)
(* from (the worker goes on with an empty batch); the failure ends neither  *)
(* the worker nor shutdown with a fault, and producers never see one.       *)
(***************************************************************************)
Thm_C5_FailOpenNoRetry ==
    /\ \A i \in DOMAIN attempts :
          attempts[i].outcome # "ok" =>
              /\ Range(attempts[i].batch) \cap PendingEvents = {}
              /\ \A j \in DOMAIN attempts :
                    j # i => Range(attempts[i].batch) \cap Range(attempts[j].batch) = {}
    /\ ~bt_log.worker_fault
    /\ ~bt_log.shutdown_fault
    /\ w_pc = "exited" => _shutdown

\* The worker's first delivery failed and it has delivered a later batch.
Wit_C5_WorkerGoesOnAfterFailure ==
    /\ Len(attempts) >= 2
    /\ attempts[1].outcome # "ok"
    /\ attempts[1].by = "worker"
    /\ attempts[2].by = "worker"

(***************************************************************************)
(* C6: once shutdown() has returned (and the worker thread has ended),      *)
(* every event put before shutdown() was called has been included in a     *)
(* delivery attempt.                                                        *)
(***************************************************************************)
Cex_C6_ShutdownFlushesEverything ==
    (sd_pc = "returned" /\ w_pc = "exited") =>
        \A e \in 1..bt_log.before_shutdown : e \in AttemptedEvents

(***************************************************************************)
(* C7, as stated: when BatchSize events have been put and no delivery has   *)
(* failed, the worker makes exactly one delivery attempt, holding all of    *)
(* them in put order.                                                       *)
(***************************************************************************)
FirstBatch == [i \in 1..BatchSize |-> i]
AllDelivered == \A i \in DOMAIN attempts : attempts[i].outcome = "ok"
WorkerIdle == _queue = <<>> /\ batch = <<>> /\ w_pc # "flush"
NoTimeFlush ==
    /\ w_trigger # "time"
    /\ \A i \in DOMAIN attempts : attempts[i].trigger # "time"

OneAttemptWithAll ==
    /\ Len(attempts) <= 1
    /\ Len(attempts) = 1 => attempts[1].batch = FirstBatch
    /\ WorkerIdle => Len(attempts) = 1

Cex_C7_SizeFlushOneAttempt ==
    (bt_log.put = BatchSize /\ ~_shutdown /\ AllDelivered) => OneAttemptWithAll

(***************************************************************************)
(* C7, amended: the batch is flushed in the loop pass in which it reaches   *)
(* BatchSize; and when BatchSize events have been put, no delivery has      *)
(* failed, shutdown has not been requested and no queue.get has timed out   *)
(* with the flush interval elapsed while the batch was partly filled (no    *)
(* time-based flush), the worker makes exactly one delivery attempt,        *)
(* holding all of them in put order.                                        *)
(***************************************************************************)
Thm_C7_SizeFlushUnlessTimeFlush ==
    /\ Len(batch) >= BatchSize =>
          w_pc = "flush" /\ w_trigger = "size" /\ Len(batch) = BatchSize
    /\ \A i \in DOMAIN attempts :
          attempts[i].trigger = "size" => Len(attempts[i].batch) = BatchSize
    /\ (bt_log.put = BatchSize /\ ~_shutdown /\ AllDelivered /\ NoTimeFlush)
          => OneAttemptWithAll

\* BatchSize events were put and the worker has delivered them in one batch.
Wit_C7_OneFullBatch ==
    /\ bt_log.put = BatchSize
    /\ ~_shutdown
    /\ WorkerIdle
    /\ Len(attempts) = 1
    /\ attempts[1] = Attempt(FirstBatch, "ok", "worker", "size")

(***************************************************************************)
(* C8: when a queue.get of the worker times out (no new event) while the    *)
(* batch is non-empty, smaller than BatchSize, and the flush interval has   *)
(* elapsed since the last flush, the worker goes to deliver that batch, and *)
(* the delivery is exactly one attempt holding exactly the pending events,  *)
(* after which the batch is empty (the worker never delivers an empty       *)
(* batch, so no further attempt follows without new events).                *)
(***************************************************************************)
TimeFlushDue ==
    /\ w_pc = "get"
    /\ _queue = <<>>
    /\ batch # <<>>
    /\ Len(batch) < BatchSize
    /\ since_flush >= FlushInterval

Thm_C8_TimeFlush ==
    /\ [][(TimeFlushDue /\ w_pc' # "get") =>
            (w_pc' = "flush" /\ w_trigger' = "time" /\ batch' = batch
               /\ attempts' = attempts)]_vars
    /\ [][(w_pc = "flush" /\ w_trigger = "time" /\ w_pc' # "flush") =>
            (/\ Len(attempts') = Len(attempts) + 1
             /\ attempts'[Len(attempts')].batch = batch
             /\ SubSeq(attempts', 1, Len(attempts)) = attempts
             /\ batch' = <<>>)]_vars
    /\ [][(w_pc # "flush" /\ sd_pc # "flush") => attempts' = attempts]_vars
    /\ [](w_pc = "flush" => batch # <<>>)

\* The worker has delivered a batch smaller than BatchSize on the time trigger.
Wit_C8_TimeFlushHappened ==
    \E i \in DOMAIN attempts :
        /\ attempts[i].trigger = "time"
        /\ attempts[i].by = "worker"
        /\ Len(attempts[i].batch) < BatchSize

(***************************************************************************)
(* The backend: POST /ingest over the runs and steps tables.  One request  *)
(* is one session and one transaction.  The session is created with        *)
(* autoflush=False, so an object added in this request stays pending (and   *)
(* invisible to db.get) until the commit at the end of the handler.         *)
(***************************************************************************)
StoreRunIds == {1, 2}
StoreStepIds == {1, 2}
MaxRequestEvents == 2

\* Position of the stored row with this primary key, 0 when db.get gives None.
DbGet(table, id) ==
    IF \E i \in DOMAIN table : table[i].id = id
    THEN CHOOSE i \in DOMAIN table : table[i].id = id
    ELSE 0

RunRow(data, status, error) ==
    [ id |-> data.id,
      name |-> data.name,
      status |-> status,
      total_cost |-> DictGet(data, "total_cost", 0),
      started_at |-> DictGet(data, "started_at", None),
      completed_at |-> DictGet(data, "completed_at", None),
      error |-> error ]

StepRow(data, error) ==
    [ id |-> data.id,
      run_id |-> data.run_id,
      name |-> data.name,
      type |-> data.type,
      inputs |-> DictGet(data, "inputs", EmptyDict),
      outputs |-> DictGet(data, "outputs", EmptyDict),
      metadata |-> DictGet(data, "metadata", EmptyDict),
      cost |-> DictGet(data, "cost", 0),
      started_at |-> DictGet(data, "started_at", None),
      completed_at |-> DictGet(data, "completed_at", None),
      error |-> error ]

\* A session: the persistent rows (as loaded and changed by this request)
\* and the objects added by this request, still pending.
NewSession(runs, steps) ==
    [runs |-> runs, steps |-> steps, new_runs |-> <<>>, new_steps |-> <<>>]

OnRunComplete(s, data) ==
    LET i == DbGet(s.runs, data.id)
    IN  IF i # 0
        THEN [s EXCEPT !.runs[i].status = "COMPLETED",
                       !.runs[i].completed_at = DictGet(data, "completed_at", None),
                       !.runs[i].total_cost = DictGet(data, "total_cost", 0)]
        ELSE [s EXCEPT !.new_runs = Append(@, RunRow(data, "COMPLETED", None))]

OnRunFailed(s, data) ==
    LET i == DbGet(s.runs, data.id)
    IN  IF i # 0
        THEN [s EXCEPT !.runs[i].status = "FAILED",
                       !.runs[i].completed_at = DictGet(data, "completed_at", None),
                       !.runs[i].error = DictGet(data, "error", None)]
        ELSE [s EXCEPT !.new_runs =
                 Append(@, RunRow(data, "FAILED", DictGet(data, "error", None)))]

OnStepComplete(s, data) ==
    LET i == DbGet(s.steps, data.id)
        r == DbGet(s.runs, data.run_id)
        step == StepRow(data, None)
        added == [s EXCEPT !.new_steps = Append(@, step)]
    IN  IF i # 0
        THEN [s EXCEPT !.steps[i].outputs = DictGet(data, "outputs", EmptyDict),
                       !.steps[i].metadata = DictGet(data, "metadata", EmptyDict),
                       !.steps[i].completed_at = DictGet(data, "completed_at", None),
                       !.steps[i].cost = DictGet(data, "cost", 0)]
        ELSE IF r # 0
             THEN [added EXCEPT !.runs[r].total_cost = @ + step.cost]
             ELSE added

OnStepFailed(s, data) ==
    LET i == DbGet(s.steps, data.id)
    IN  IF i # 0
        THEN [s EXCEPT !.steps[i].error = DictGet(data, "error", None),
                       !.steps[i].completed_at = DictGet(data, "completed_at", None)]
        ELSE [s EXCEPT !.new_steps =
                 Append(@, StepRow(data, DictGet(data, "error", None)))]

OnEvent(s, event) ==
    CASE event.type = "run_complete"  -> OnRunComplete(s, event.data)
      [] event.type = "run_failed"    -> OnRunFailed(s, event.data)
      [] event.type = "step_complete" -> OnStepComplete(s, event.data)
      [] event.type = "step_failed"   -> OnStepFailed(s, event.data)
      [] OTHER -> s

RECURSIVE OnEvents(_, _)
OnEvents(s, events) ==
    IF events = <<>> THEN s
    ELSE OnEvents(OnEvent(s, Head(events)), Tail(events))

Ids(table) == {table[i].id : i \in DOMAIN table}

\* The INSERTs of the commit: two pending objects with one primary key, or
\* a step whose run has no row when the step is inserted, fail the flush.
\* Nothing orders the runs INSERT before the steps INSERT but the unit of
\* work (the mappers have no relationship()), hence runs_first.
PrimaryKeysFree(s) ==
    /\ \A i, j \in DOMAIN s.new_runs : s.new_runs[i].id = s.new_runs[j].id => i = j
    /\ \A i, j \in DOMAIN s.new_steps : s.new_steps[i].id = s.new_steps[j].id => i = j
    /\ Ids(s.new_runs) \cap Ids(s.runs) = {}
    /\ Ids(s.new_steps) \cap Ids(s.steps) = {}

ForeignKeysHold(s, runs_first) ==
    \A i \in DOMAIN s.new_steps :
        \/ s.new_steps[i].run_id \in Ids(s.runs)
        \/ runs_first /\ s.new_steps[i].run_id \in Ids(s.new_runs)

\* The handler: every event in turn, then the commit.  A failed commit
\* is answered with status 500 and leaves the tables as they were.
ingest_events(events, runs, steps, runs_first) ==
    LET s == OnEvents(NewSession(runs, steps), events)
    IN  IF PrimaryKeysFree(s) /\ ForeignKeysHold(s, runs_first)
        THEN [status |-> 200, runs |-> s.runs \o s.new_runs,
              steps |-> s.steps \o s.new_steps]
        ELSE [status |-> 500, runs |-> runs, steps |-> steps]

\* What the client emits for the steps and runs of an application: each
\* step scope ends in step_complete or step_failed, each run scope in
\* run_complete or run_failed.
ExceptionFault == [kind |-> "Exception", msg |-> "boom"]

StepEventOf(step_id, a) ==
    LET d == NewStepData(step_id, NewRunData(a.run), "logic", a.cost)
    IN  IF a.fault = NoFault
        THEN Event("step_complete", CompleteStep(d))
        ELSE Event("step_failed", FailStep(d, a.fault))

RunEventOf(run_id, fault) ==
    IF fault = NoFault
    THEN Event("run_complete", CompleteRun(NewRunData(run_id)))
    ELSE Event("run_failed", FailRun(NewRunData(run_id), fault))

StepAttrs == [run : StoreRunIds, cost : StepCosts, fault : {NoFault, ExceptionFault}]

StoreInit ==
    /\ SummIdle
    /\ CtxIdle
    /\ BatchIdle
    /\ _queue = <<>>
    /\ st_runs = <<>>
    /\ st_steps = <<>>
    /\ \E sa \in [StoreStepIds -> StepAttrs],
          ra \in [StoreRunIds -> {NoFault, ExceptionFault}] :
          st_emitted = {StepEventOf(j, sa[j]) : j \in StoreStepIds}
                          \cup {RunEventOf(r, ra[r]) : r \in StoreRunIds}
    /\ st_ingested = <<>>
    /\ st_last = [events |-> <<>>, status |-> 0]
    /\ st_submitted = 0
    /\ fn_resp = [status |-> 0]

Requests(pool) ==
    UNION {[1..n -> pool] : n \in 1..MaxRequestEvents}

\* One POST /ingest and its effect on the tables and the histories.
Post(events, runs_first) ==
    /\ LET res == ingest_events(events, st_runs, st_steps, runs_first)
       IN  /\ st_runs' = res.runs
           /\ st_steps' = res.steps
           /\ st_last' = [events |-> events, status |-> res.status]
           /\ st_ingested' = IF res.status = 200 THEN st_ingested \o events
                             ELSE st_ingested
    /\ st_submitted' = st_submitted + Len(events)
    /\ UNCHANGED <<st_emitted, fn_resp>>
    /\ UNCHANGED <<sm_vars, cx_vars, _queue, bt_vars>>

IngestRequest ==
    \E events \in Requests(st_emitted), runs_first \in BOOLEAN :
        /\ st_submitted + Len(events) <= MaxIngest
        /\ Post(events, runs_first)

StoreNext == IngestRequest

SpecStore == StoreInit /\ [][StoreNext]_vars

(***************************************************************************)
(* Properties of the store.                                                *)
(***************************************************************************)
Occurrences(seq, e) == {i \in DOMAIN seq : seq[i] = e}

IsStepEvent(e) == e.type \in {"step_complete", "step_failed"}
IsRunEvent(e) == e.type \in {"run_complete", "run_failed"}

\* The events the client emitted for run r: those of its steps and its own.
StepEventsOfRun(r) == {e \in st_emitted : IsStepEvent(e) /\ e.data.run_id = r}
RunEventsOfRun(r) == {e \in st_emitted : IsRunEvent(e) /\ e.data.id = r}

\* Every event of run r has been ingested, once, the steps' events before
\* the run's: the order in which the client emits them.
IngestedAsEmitted(r) ==
    /\ \A e \in StepEventsOfRun(r) \cup RunEventsOfRun(r) :
          Cardinality(Occurrences(st_ingested, e)) = 1
    /\ \A e \in StepEventsOfRun(r), f \in RunEventsOfRun(r) :
          \A i \in Occurrences(st_ingested, e), j \in Occurrences(st_ingested, f) : i < j

RECURSIVE SumCost(_)
SumCost(rows) ==
    IF rows = <<>> THEN 0 ELSE Head(rows).cost + SumCost(Tail(rows))

CompletedStepsOf(r) ==
    SelectSeq(st_steps, LAMBDA row : row.run_id = r /\ row.completed_at # None
                                      /\ row.error = None)

(***************************************************************************)
(* C9: once the step_complete event of each step of a run and then the     *)
(* run's run_complete event have been ingested, the stored run's           *)
(* total_cost is the sum of the costs of the run's stored completed steps. *)
(***************************************************************************)
Cex_C9_TotalCostIsSumOfStepCosts ==
    \A r \in StoreRunIds :
        ( /\ IngestedAsEmitted(r)
          /\ \A e \in StepEventsOfRun(r) : e.type = "step_complete"
          /\ \A e \in RunEventsOfRun(r) : e.type = "run_complete" )
        => /\ DbGet(st_runs, r) # 0
           /\ st_runs[DbGet(st_runs, r)].total_cost = SumCost(CompletedStepsOf(r))

(***************************************************************************)
(* C10: a request that ingests a step_complete event for the second time   *)
(* (it was ingested by an earlier request, or it comes twice in this       *)
(* request and the store would take it once) ends with exactly one step    *)
(* row of that identity; and when the request holds nothing else than the  *)
(* event already ingested, the tables, total_cost included, are unchanged. *)
(***************************************************************************)
RowsWithId(table, id) == {i \in DOMAIN table : table[i].id = id}

SecondIngestion(e, events) ==
    \/ e \in Range(st_ingested)
    \/ /\ Cardinality(Occurrences(events, e)) >= 2
       /\ ingest_events(<<e>>, st_runs, st_steps, TRUE).status = 200

Cex_C10_SecondIngestIsIdempotent ==
    [][ st_submitted' # st_submitted =>
          \A e \in Range(st_last'.events) :
              (e.type = "step_complete" /\ SecondIngestion(e, st_last'.events)) =>
                  /\ Cardinality(RowsWithId(st_steps', e.data.id)) = 1
                  /\ st_last'.events = <<e>> =>
                        (st_runs' = st_runs /\ st_steps' = st_steps) ]_vars

(***************************************************************************)
(* C11: for a run and one of its steps, neither ingested yet, the request  *)
(* sequence step_complete, run_complete and the request sequence           *)
(* run_complete, step_complete end in the same run row and step row        *)
(* (total_cost included).                                                  *)
(***************************************************************************)
RECURSIVE AfterRequests(_, _, _)
AfterRequests(requests, runs, steps) ==
    IF requests = <<>> THEN [runs |-> runs, steps |-> steps]
    ELSE LET res == ingest_events(Head(requests), runs, steps, TRUE)
         IN  AfterRequests(Tail(requests), res.runs, res.steps)

RecordsOf(table, id) == {table[i] : i \in RowsWithId(table, id)}

SameRecords(a, b, run_id, step_id) ==
    /\ RecordsOf(a.runs, run_id) = RecordsOf(b.runs, run_id)
    /\ RecordsOf(a.steps, step_id) = RecordsOf(b.steps, step_id)

Cex_C11_IngestOrderIndependent ==
    \A e, f \in st_emitted :
        ( /\ e.type = "step_complete"
          /\ f.type = "run_complete"
          /\ f.data.id = e.data.run_id
          /\ RowsWithId(st_runs, f.data.id) = {}
          /\ RowsWithId(st_steps, e.data.id) = {} )
        => SameRecords(AfterRequests(<< <<e>>, <<f>> >>, st_runs, st_steps),
                       AfterRequests(<< <<f>>, <<e>> >>, st_runs, st_steps),
                       f.data.id, e.data.id)

(***************************************************************************)
(* The backend: GET /analyze/{run_id}, the decision funnel of a run.       *)
(* The JSON values of a step's inputs, outputs and metadata carry their    *)
(* Python type; PyNone is None.                                            *)
(***************************************************************************)
PyNone == [kind |-> "none", val |-> 0]
Absent == [kind |-> "absent", val |-> 0]
JInt(n) == [kind |-> "int", val |-> n]
JStr(str) == [kind |-> "str", val |-> str]
JList(seq) == [kind |-> "list", val |-> seq]
\* A float, as the pair <<numerator, denominator>>.
JFloat(num, den) == [kind |-> "float", val |-> <<num, den>>]

\* bool(value), as the or of Python sees it.
Truthy(v) ==
    CASE v.kind = "none"  -> FALSE
      [] v.kind = "int"   -> v.val # 0
      [] v.kind = "float" -> v.val[1] # 0
      [] v.kind = "str"   -> v.val # ""
      [] v.kind = "list"  -> v.val # <<>>
      [] OTHER -> TRUE

\* a or b
PyOr(a, b) == IF Truthy(a) THEN a ELSE b

\* d.get(key)
Get(d, key) == DictGet(d, key, PyNone)

\* len(outputs.get(key, [])) if isinstance(outputs.get(key), list) else None
LenIfList(d, key) ==
    IF Get(d, key).kind = "list" THEN JInt(Len(Get(d, key).val)) ELSE PyNone

input_count(step) ==
    IF step.type = "filter"
    THEN PyOr(Get(step.metadata, "total_count"), Get(step.inputs, "candidate_count"))
    ELSE PyNone

output_count(step) ==
    CASE step.type = "filter" ->
            PyOr(Get(step.metadata, "survivor_count"), LenIfList(step.outputs, "survivors"))
      [] step.type = "retrieval" ->
            PyOr(Get(step.outputs, "count"), LenIfList(step.outputs, "items"))
      [] OTHER -> PyNone

\* Mutant: the computed rate without the test input_count > 0.
ComputedDropRate_NoGuard(ic, oc) == JFloat(ic.val - oc.val, ic.val)

ComputedDropRate(ic, oc) ==
    IF ic.val > 0 THEN JFloat(ic.val - oc.val, ic.val) ELSE PyNone

drop_rate(step) ==
    LET dr == Get(step.metadata, "drop_rate")
        ic == input_count(step)
        oc == output_count(step)
    IN  IF dr = PyNone /\ ic # PyNone /\ oc # PyNone
        THEN ComputedDropRate(ic, oc)
        ELSE dr

DecisionFunnelStep(step) ==
    [ step_id |-> step.id,
      step_name |-> step.name,
      step_type |-> step.type,
      input_count |-> input_count(step),
      output_count |-> output_count(step),
      drop_rate |-> drop_rate(step),
      rejection_histogram |-> Get(step.metadata, "rejection_histogram"),
      cost |-> step.cost ]

\* "input_count > 0" and "input_count - output_count" raise TypeError when
\* a count taken from the stored fields is not a number.
DropRateRaises(step) ==
    LET dr == Get(step.metadata, "drop_rate")
        ic == input_count(step)
        oc == output_count(step)
    IN  /\ dr = PyNone /\ ic # PyNone /\ oc # PyNone
        /\ \/ ic.kind # "int"
           \/ ic.val > 0 /\ oc.kind # "int"

\* The field types of the DecisionFunnelStep schema: Optional[int] takes None
\* and an int, Optional[float] takes None and a number (a string holding a
\* number would be converted; any other string is a ValidationError).
OptionalInt(v) == v.kind \in {"none", "int"}
OptionalFloat(v) == v.kind \in {"none", "int", "float"}

ValidationError(entry) ==
    \/ ~OptionalInt(entry.input_count)
    \/ ~OptionalInt(entry.output_count)
    \/ ~OptionalFloat(entry.drop_rate)

\* One pass of the loop over the steps ends in a fault.
StepRaises(step) == DropRateRaises(step) \/ ValidationError(DecisionFunnelStep(step))

\* Mutant: any step's outputs become the final output.
FinalOutputAfter_AnyStep(final_output, step) == JList(<<step.outputs>>)

\* The final output after one more step of the loop; a dict is held as a
\* one-element list so that None and {} stay apart.
FinalOutputAfter(final_output, step) ==
    IF step.type = "logic" THEN JList(<<step.outputs>>) ELSE final_output

RECURSIVE Funnel(_)
Funnel(steps) ==
    IF steps = <<>> THEN <<>>
    ELSE <<DecisionFunnelStep(Head(steps))>> \o Funnel(Tail(steps))

RECURSIVE FinalOutput(_, _)
FinalOutput(final_output, steps) ==
    IF steps = <<>> THEN final_output
    ELSE FinalOutput(FinalOutputAfter(final_output, Head(steps)), Tail(steps))

\* select(Step).where(Step.run_id == run_id).order_by(Step.started_at):
\* every order of the run's rows that is sorted by started_at (rows with
\* equal started_at come in an order the database chooses).
StepsOrdered(steps, run_id) ==
    LET rows == {i \in DOMAIN steps : steps[i].run_id = run_id}
        n == Cardinality(rows)
    IN  { [k \in 1..n |-> steps[p[k]]] :
            p \in { q \in [1..n -> rows] :
                      /\ \A a, b \in 1..n : a # b => q[a] # q[b]
                      /\ \A a, b \in 1..n :
                            a < b => steps[q[a]].started_at <= steps[q[b]].started_at } }

\* Mutant: an unknown run is answered like a run without steps.
RunNotFound_Never(runs, run_id) == FALSE

RunNotFound(runs, run_id) == DbGet(runs, run_id) = 0

analyze_run(run_id, runs, steps) ==
    IF RunNotFound(runs, run_id)
    THEN [status |-> 404, run_id |-> run_id, total_cost |-> 0,
          funnel |-> <<>>, final_output |-> PyNone, steps |-> <<>>]
    ELSE IF \E k \in DOMAIN steps : StepRaises(steps[k])
    THEN [status |-> 500, run_id |-> run_id, total_cost |-> 0,
          funnel |-> <<>>, final_output |-> PyNone, steps |-> steps]
    ELSE [status |-> 200, run_id |-> run_id,
          total_cost |-> IF DbGet(runs, run_id) # 0
                         THEN runs[DbGet(runs, run_id)].total_cost ELSE 0,
          funnel |-> Funnel(steps),
          final_output |-> FinalOutput(PyNone, steps),
          steps |-> steps]

(***************************************************************************)
(* The funnel as a process: the events of a run and of its steps are       *)
(* ingested, and then the funnel of a run is requested, any number of      *)
(* times.  The first step takes every combination of the fields the        *)
(* reconstruction reads; the steps after it take one of a few typical      *)
(* records.                                                                *)
(***************************************************************************)
\* The dict holding the keys of f whose value is not Absent.
Compact(f) == [k \in {x \in DOMAIN f : f[x] # Absent} |-> f[k]]

FunnelTimes == {1, 2}

FilterFields ==
    [ total_count : {Absent, JInt(0), JInt(5000), JStr("many")},
      survivor_count : {Absent, JInt(0), JInt(50)},
      drop_rate : {Absent, JFloat(0, 1), JFloat(1, 2)},
      candidate_count : {Absent, JInt(0), JInt(3)},
      survivors : {Absent, JList(<<"a", "b">>), JStr("<obj>")} ]

RetrievalFields ==
    [ count : {Absent, JInt(0), JInt(2)},
      items : {Absent, JList(<<"a", "b", "c">>), JStr("<obj>")},
      drop_rate : {Absent, JFloat(1, 2)} ]

LogicOutputs == {EmptyDict, [selected |-> JStr("X")], [selected |-> JStr("Y")]}

StepRecord(type, inputs, outputs, metadata) ==
    [type |-> type, inputs |-> inputs, outputs |-> outputs, metadata |-> metadata]

FilterRecord(f) ==
    StepRecord("filter",
               Compact([candidate_count |-> f.candidate_count]),
               Compact([survivors |-> f.survivors]),
               Compact([total_count |-> f.total_count,
                        survivor_count |-> f.survivor_count,
                        drop_rate |-> f.drop_rate]))

RetrievalRecord(f) ==
    StepRecord("retrieval", EmptyDict,
               Compact([count |-> f.count, items |-> f.items]),
               Compact([drop_rate |-> f.drop_rate]))

LogicRecord(outputs) == StepRecord("logic", EmptyDict, outputs, EmptyDict)

LlmRecord == StepRecord("llm", [prompt |-> JStr("p")], [text |-> JStr("t")], EmptyDict)

AllRecords ==
    {FilterRecord(f) : f \in FilterFields}
        \cup {RetrievalRecord(f) : f \in RetrievalFields}
        \cup {LogicRecord(o) : o \in LogicOutputs}
        \cup {LlmRecord}

TypicalRecords ==
    { LogicRecord(EmptyDict),
      LogicRecord([selected |-> JStr("X")]),
      LlmRecord,
      FilterRecord([total_count |-> JInt(5000), survivor_count |-> JInt(50),
                    drop_rate |-> Absent, candidate_count |-> Absent,
                    survivors |-> Absent]) }

\* The step_complete event of step step_id of run 1, as step builds it.
FunnelStepEvent(step_id, rec, started_at) ==
    Event("step_complete",
          [ id |-> step_id, run_id |-> 1, name |-> "step", type |-> rec.type,
            inputs |-> rec.inputs, outputs |-> rec.outputs, metadata |-> rec.metadata,
            started_at |-> started_at, completed_at |-> started_at ])

FunnelStepEvents(step_id) ==
    { FunnelStepEvent(step_id, rec, t) :
        rec \in (IF step_id = 1 THEN AllRecords ELSE TypicalRecords), t \in FunnelTimes }

FunnelInit ==
    /\ SummIdle
    /\ CtxIdle
    /\ BatchIdle
    /\ StoreIdle
    /\ _queue = <<>>

\* The events of a run of n steps in the order the client emits them (the
\* steps', then the run's), sent as one batch.
RECURSIVE StepBatches(_)
StepBatches(n) ==
    IF n = 0 THEN {<<>>}
    ELSE {Append(b, e) : b \in StepBatches(n - 1), e \in FunnelStepEvents(n)}

FnIngest ==
    /\ st_submitted = 0
    /\ fn_resp.status = 0
    /\ \E n \in 0..MaxFunnelSteps :
          \E b \in StepBatches(n) : Post(b \o <<RunEventOf(1, NoFault)>>, TRUE)

Analyze ==
    \E run_id \in StoreRunIds :
        \E steps \in StepsOrdered(st_steps, run_id) :
            /\ fn_resp' = analyze_run(run_id, st_runs, steps)
            /\ UNCHANGED <<st_runs, st_steps, st_emitted, st_ingested, st_last,
                           st_submitted>>
            /\ UNCHANGED <<sm_vars, cx_vars, _queue, bt_vars>>

FunnelNext == FnIngest \/ Analyze

SpecFunnel == FunnelInit /\ [][FunnelNext]_vars

(***************************************************************************)
(* Properties of the funnel.  fn_resp.steps[k] is the step row behind the  *)
(* entry fn_resp.funnel[k].                                                *)
(***************************************************************************)
Has(d, key) == key \in DOMAIN d

Answered == fn_resp.status = 200

EntriesOfType(types) ==
    {k \in DOMAIN fn_resp.funnel : fn_resp.steps[k].type \in types}

\* Two floats are the same number.
SameNumber(x, y) ==
    /\ x.kind = "float"
    /\ y.kind = "float"
    /\ x.val[1] * y.val[2] = y.val[1] * x.val[2]

(***************************************************************************)
(* C12: the entry of a FILTER step has input_count = metadata.total_count  *)
(* whenever that field is present (0 included), else                       *)
(* inputs.candidate_count; and output_count = metadata.survivor_count      *)
(* whenever present (0 included), else the length of outputs.survivors     *)
(* when that is a list.  With total_count 5000 and survivor_count 50 (and  *)
(* no metadata.drop_rate) the entry has 5000, 50 and drop_rate 0.99.       *)
(***************************************************************************)
Cex_C12_FilterCountPrecedence ==
    Answered =>
        \A k \in EntriesOfType({"filter"}) :
            LET step == fn_resp.steps[k]
                entry == fn_resp.funnel[k]
            IN  /\ entry.input_count =
                      IF Has(step.metadata, "total_count")
                      THEN step.metadata.total_count
                      ELSE Get(step.inputs, "candidate_count")
                /\ entry.output_count =
                      IF Has(step.metadata, "survivor_count")
                      THEN step.metadata.survivor_count
                      ELSE LenIfList(step.outputs, "survivors")
                /\ ( /\ Get(step.metadata, "total_count") = JInt(5000)
                     /\ Get(step.metadata, "survivor_count") = JInt(50)
                     /\ ~Has(step.metadata, "drop_rate") )
                   => SameNumber(entry.drop_rate, JFloat(99, 100))

(***************************************************************************)
(* C13: the entry's drop_rate is metadata.drop_rate when that is present;  *)
(* otherwise, when the entry's input_count and output_count are both       *)
(* present and input_count > 0, it is (input_count - output_count) /       *)
(* input_count; otherwise it is absent.  No drop_rate has denominator 0.   *)
(***************************************************************************)
Thm_C13_DropRateDerivation ==
    Answered =>
        \A k \in DOMAIN fn_resp.funnel :
            LET step == fn_resp.steps[k]
                entry == fn_resp.funnel[k]
                ic == entry.input_count
                oc == entry.output_count
            IN  /\ Has(step.metadata, "drop_rate") =>
                      entry.drop_rate = step.metadata.drop_rate
                /\ (~Has(step.metadata, "drop_rate") /\ ic # PyNone /\ oc # PyNone
                      /\ ic.val > 0) =>
                      SameNumber(entry.drop_rate, JFloat(ic.val - oc.val, ic.val))
                /\ (~Has(step.metadata, "drop_rate")
                      /\ ~(ic # PyNone /\ oc # PyNone /\ ic.val > 0)) =>
                      entry.drop_rate = PyNone
                /\ entry.drop_rate.kind = "float" => entry.drop_rate.val[2] # 0

\* One response shows the three cases: a rate taken from metadata against
\* the counts, a computed rate, and no rate for input_count 0.
Wit_C13_MetadataComputedAbsent ==
    /\ Answered
    /\ \E k \in DOMAIN fn_resp.funnel :
          LET step == fn_resp.steps[k]
              entry == fn_resp.funnel[k]
          IN  /\ ~Has(step.metadata, "drop_rate")
              /\ entry.input_count = JInt(0)
              /\ entry.output_count = JInt(2)
              /\ entry.drop_rate = PyNone
    /\ \E k \in DOMAIN fn_resp.funnel :
          /\ ~Has(fn_resp.steps[k].metadata, "drop_rate")
          /\ fn_resp.funnel[k].input_count = JInt(5000)
          /\ fn_resp.funnel[k].output_count = JInt(50)
          /\ fn_resp.funnel[k].drop_rate = JFloat(4950, 5000)

(***************************************************************************)
(* C14: the entry of a FILTER step whose metadata.total_count is 0 has no  *)
(* drop_rate, whatever the step's other fields (and the request is         *)
(* answered).                                                              *)
(***************************************************************************)
Cex_C14_ZeroTotalGivesNoDropRate ==
    fn_resp.status # 0 =>
        /\ fn_resp.status \in {200, 404}
        /\ \A k \in EntriesOfType({"filter"}) :
              Get(fn_resp.steps[k].metadata, "total_count") = JInt(0) =>
                  fn_resp.funnel[k].drop_rate = PyNone

(***************************************************************************)
(* C15: the steps are taken in start-time order; the final output is the   *)
(* outputs of the last LOGIC step in that order, it is absent exactly when *)
(* the run has no LOGIC step (so LLM, FILTER and RETRIEVAL steps never     *)
(* change it), and LOGIC and LLM entries have no input_count and no        *)
(* output_count.                                                           *)
(***************************************************************************)
LastOf(positions) == CHOOSE k \in positions : \A j \in positions : j <= k

Thm_C15_FinalOutputIsLastLogic ==
    Answered =>
        LET logic == EntriesOfType({"logic"})
        IN  /\ \A a, b \in DOMAIN fn_resp.steps :
                  a < b => fn_resp.steps[a].started_at <= fn_resp.steps[b].started_at
            /\ Range(fn_resp.steps) = {row \in Range(st_steps) : row.run_id = fn_resp.run_id}
            /\ Len(fn_resp.funnel) = Len(fn_resp.steps)
            /\ (logic = {}) <=> (fn_resp.final_output = PyNone)
            /\ logic # {} =>
                  fn_resp.final_output = JList(<<fn_resp.steps[LastOf(logic)].outputs>>)
            /\ \A k \in EntriesOfType({"logic", "llm"}) :
                  /\ fn_resp.funnel[k].input_count = PyNone
                  /\ fn_resp.funnel[k].output_count = PyNone

\* A LOGIC step stored second but started first comes first in the funnel;
\* the LOGIC step after it gives the final output.
Wit_C15_TwoLogicStepsOutOfOrder ==
    /\ Answered
    /\ Len(fn_resp.steps) = 2
    /\ fn_resp.steps[1].id = 2
    /\ fn_resp.steps[1].type = "logic"
    /\ fn_resp.steps[2].type = "logic"
    /\ fn_resp.steps[1].outputs # fn_resp.steps[2].outputs
    /\ fn_resp.steps[1].started_at < fn_resp.steps[2].started_at
    /\ fn_resp.final_output = JList(<<fn_resp.steps[2].outputs>>)

(***************************************************************************)
(* C16: the entry of a RETRIEVAL step has output_count = outputs.count     *)
(* whenever that field is present (0 included), otherwise the length of    *)
(* outputs.items when that is a list, otherwise none; and no input_count.  *)
(***************************************************************************)
Cex_C16_RetrievalCount ==
    Answered =>
        \A k \in EntriesOfType({"retrieval"}) :
            LET step == fn_resp.steps[k]
                entry == fn_resp.funnel[k]
            IN  /\ entry.output_count =
                      IF Has(step.outputs, "count") THEN step.outputs.count
                      ELSE LenIfList(step.outputs, "items")
                /\ entry.input_count = PyNone

(***************************************************************************)
(* C18: a funnel request for a run without a row is answered not-found     *)
(* (404), and for a stored run never so; for a stored run with no step row *)
(* it is answered 200 with an empty funnel and no final output.            *)
(***************************************************************************)
StepRowsOf(run_id) == {i \in DOMAIN st_steps : st_steps[i].run_id = run_id}

Thm_C18_NotFoundOrEmptyFunnel ==
    fn_resp.status # 0 =>
        /\ DbGet(st_runs, fn_resp.run_id) = 0 => fn_resp.status = 404
        /\ DbGet(st_runs, fn_resp.run_id) # 0 =>
              /\ fn_resp.status # 404
              /\ StepRowsOf(fn_resp.run_id) = {} =>
                    /\ fn_resp.status = 200
                    /\ fn_resp.funnel = <<>>
                    /\ fn_resp.final_output = PyNone

Wit_C18_StoredRunWithoutSteps ==
    /\ DbGet(st_runs, 1) # 0
    /\ st_steps = <<>>
    /\ fn_resp.status = 200
    /\ fn_resp.run_id = 1
    /\ fn_resp.funnel = <<>>

(***************************************************************************)
(* C17: a process_candidates call made under a current run puts exactly    *)
(* one step_complete event; its record has type filter, the current run as *)
(* run_id, and a metadata holding total_count = len(candidates),           *)
(* survivor_count = len(survivors), rejection_histogram, and drop_rate =   *)
(* (total_count - survivor_count) / total_count, or 0 for total_count 0.   *)
(***************************************************************************)
Cex_C17_SummaryMetadataHasFourFields ==
    (sm_pc = "returned" /\ sm_run # None) =>
        /\ Len(_queue) = 1
        /\ _queue[1].type = "step_complete"
        /\ _queue[1].data.type = "filter"
        /\ _queue[1].data.run_id = sm_run
        /\ LET metadata == _queue[1].data.metadata
           IN  /\ {"total_count", "survivor_count", "rejection_histogram", "drop_rate"}
                     \subseteq DOMAIN metadata
               /\ metadata.total_count = Len(sm_cands)
               /\ metadata.survivor_count = Len(sm_ret)
               /\ metadata.rejection_histogram = sm_hist
               /\ metadata.drop_rate = DropRate(Len(sm_cands), Len(sm_ret))

(***************************************************************************)
(* C19: with no current run in the calling context, a step scope is inert: *)
(* it yields an empty record, and entering and leaving it (normally or by  *)
(* a fault, which passes unchanged) put no event and leave the current     *)
(* step as it is; and process_candidates puts no event and returns the     *)
(* accepted candidates.                                                    *)
(***************************************************************************)
StepScopeEntered(c) ==
    /\ Len(frames'[c]) = Len(frames[c]) + 1
    /\ frames'[c][Len(frames'[c])].kind \in {"step", "inert"}

InertScopeLeft(c) ==
    /\ Len(frames'[c]) = Len(frames[c]) - 1
    /\ Top(c).kind = "inert"

\* A process_candidates call of context c has returned.
SummaryCalledBy(c) ==
    /\ scope_log'.summary.calls = scope_log.summary.calls + 1
    /\ scope_log'.summary.ctx = c
    /\ scope_log'.summary.fault = NoFault

NothingTracked ==
    /\ _queue' = _queue
    /\ _current_step' = _current_step
    /\ _current_run' = _current_run
    /\ step_dicts' = step_dicts
    /\ run_dicts' = run_dicts
    /\ raising' = raising

Thm_C19_NoRunNoTracking ==
    [][ \A c \in Contexts :
          /\ (CtxGet(_current_run, c) = NoRef /\ StepScopeEntered(c)) =>
                /\ frames'[c][Len(frames'[c])] =
                      [kind |-> "inert", ref |-> NoRef, token |-> NoRef]
                /\ NothingTracked
          /\ InertScopeLeft(c) => NothingTracked
          /\ (CtxGet(_current_run, c) = NoRef /\ SummaryCalledBy(c)) =>
                /\ NothingTracked
                /\ scope_log'.summary.ret =
                      FilterOnly(scope_log'.summary.cands, scope_log'.summary.verd) ]_vars

\* In a context that never had a run, a fault has left an inert step scope
\* and process_candidates has filtered two candidates down to one: nothing
\* is in the queue.
Wit_C19_InertScopeLeftByFault ==
    \E c \in Contexts :
        /\ run_dicts = <<>>
        /\ scope_log.inert >= 1
        /\ frames[c] = <<>>
        /\ raising[c] # NoFault
        /\ scope_log.summary.ctx = c
        /\ scope_log.summary.ret = <<"a">>
        /\ _queue = <<>>

(***************************************************************************)
(* C20: a step scope entered under a current run publishes a new step      *)
(* record, parented to that run, as the current step; when the scope is    *)
(* left, normally or by a fault, the current step is the one from before   *)
(* the entry (possibly none).  So at any depth of nesting the current step *)
(* of a context is the step of its innermost open step scope.              *)
(***************************************************************************)
Thm_C20_CurrentStepPublishedAndRestored ==
    /\ \A j \in StepRefs :
          scope_log.step[j].exited => scope_log.step[j].after = scope_log.step[j].prev
    /\ \A c \in Contexts :
          /\ CtxGet(_current_step, c) = Innermost(frames[c], "step")
          /\ \A p \in DOMAIN frames[c] :
                frames[c][p].kind = "step" =>
                    /\ step_dicts[frames[c][p].ref].id = frames[c][p].ref
                    /\ step_dicts[frames[c][p].ref].run_id # NoRef
                    /\ step_dicts[frames[c][p].ref].run_id =
                          Innermost(SubSeq(frames[c], 1, p - 1), "run")

\* A step scope nested in another step scope was left by a fault, and the
\* outer step, still open, is current again.
Wit_C20_NestedStepLeftByFault ==
    \E j \in StepRefs, c \in Contexts :
        /\ scope_log.step[j].exited
        /\ scope_log.step[j].fault # NoFault
        /\ scope_log.step[j].prev # NoRef
        /\ CtxGet(_current_step, c) = scope_log.step[j].prev
        /\ Len(frames[c]) = 2
        /\ raising[c] # NoFault

(***************************************************************************)
(* C21: events are numbered in the order they were put.  Within every      *)
(* delivery attempt the events appear in put order, and the batches the    *)
(* worker delivers one after the other, taken together, are in put order:  *)
(* every event of an earlier worker batch was put before every event of a  *)
(* later one (and before the events the worker still holds).               *)
(***************************************************************************)
Increasing(seq) == \A i, j \in DOMAIN seq : i < j => seq[i] < seq[j]

Before(s, t) == \A a \in Range(s), b \in Range(t) : a < b

Thm_C21_FifoOrder ==
    /\ \A i \in DOMAIN attempts : Increasing(attempts[i].batch)
    /\ Increasing(batch)
    /\ \A i, j \in DOMAIN attempts :
          (i < j /\ attempts[i].by = "worker" /\ attempts[j].by = "worker")
              => Before(attempts[i].batch, attempts[j].batch)
    /\ \A i \in DOMAIN attempts :
          (attempts[i].by = "worker" /\ attempts[i].outcome = "ok")
              => Before(attempts[i].batch, batch)

\* The worker has delivered a batch of several events and then another one.
Wit_C21_TwoWorkerBatches ==
    /\ Len(attempts) >= 2
    /\ attempts[1].by = "worker"
    /\ attempts[2].by = "worker"
    /\ Len(attempts[1].batch) >= 2
    /\ attempts[2].batch # <<>>

(***************************************************************************)
(* The tracker together with the delivery of what it has put.  A scope     *)
(* hands its dict to the application ("with ... as run"), puts an event     *)
(* holding that same dict on the queue, and _flush_batch serialises the    *)
(* events of a batch only when it posts them.  The application may write   *)
(* to a dict it was handed, also after the scope has exited.               *)
(***************************************************************************)
MaxWireScopes == 2

IsRunEventType(type) == type \in {"run_complete", "run_failed"}

\* What json=payload makes of one event at the time of the post: the dict
\* the event refers to, as it is then.
Payload(event) ==
    [type |-> event.type,
     data |-> IF IsRunEventType(event.type) THEN run_dicts[event.data]
              ELSE step_dicts[event.data]]

Payloads(events) == [i \in DOMAIN events |-> Payload(events[i])]

\* The tracker's steps, for a bounded number of scopes.
WireTrack ==
    /\ CtxNext
    /\ ScopesEntered' <= MaxWireScopes

\* The application writes to the run dict that a scope, now exited, gave it.
AppMutateRun ==
    /\ \E i \in 1..Len(run_dicts) :
         /\ scope_log.run[i].exited
         /\ run_dicts[i].name # "edited"
         /\ run_dicts' = [run_dicts EXCEPT ![i] = DictSet(@, "name", "edited")]
    /\ UNCHANGED <<_current_run, _current_step, step_dicts, frames, raising,
                   scope_log, _queue, sm_vars, bt_vars, st_vars>>

\* The same for a step dict (the record of process_candidates is local to
\* that call and is handed to nobody).
AppMutateStep ==
    /\ \E j \in 1..Len(step_dicts) :
         /\ scope_log.step[j].exited
         /\ step_dicts[j].type # "filter"
         /\ step_dicts[j].name # "edited"
         /\ step_dicts' = [step_dicts EXCEPT ![j] = DictSet(@, "name", "edited")]
    /\ UNCHANGED <<_current_run, _current_step, run_dicts, frames, raising,
                   scope_log, _queue, sm_vars, bt_vars, st_vars>>

\* The worker takes the next event from the queue into its batch.
WireGet ==
    /\ _queue # <<>>
    /\ batch' = BatchAppend(batch, Head(_queue))
    /\ _queue' = Tail(_queue)
    /\ UNCHANGED <<_shutdown, w_pc, w_trigger, w_waited, since_flush, flush_elapsed,
                   sd_pc, remaining, attempts, bt_log, sm_vars, cx_vars, st_vars>>

\* The worker flushes its batch: the payload is built from the dicts as
\* they are now, and posted.
WireFlush ==
    /\ batch # <<>>
    /\ \E outcome \in DeliveryOutcomes :
         attempts' = Append(attempts, Attempt(Payloads(batch), outcome, "worker",
                                              Trigger(Len(batch))))
    /\ batch' = <<>>
    /\ UNCHANGED <<_queue, _shutdown, w_pc, w_trigger, w_waited, since_flush,
                   flush_elapsed, sd_pc, remaining, bt_log, sm_vars, cx_vars, st_vars>>

WireNext ==
    \/ WireTrack
    \/ AppMutateRun
    \/ AppMutateStep
    \/ WireGet
    \/ WireFlush

SpecWire == CtxInit /\ [][WireNext]_vars

(***************************************************************************)
(* C22: events are immutable once enqueued: as long as an event has been   *)
(* put and not yet posted (it is in the queue or in the worker's batch),   *)
(* the payload that would be delivered for it stays what it was when it    *)
(* was put, whatever the application does with the dict it was handed.     *)
(***************************************************************************)
Undelivered == Range(batch) \cup Range(_queue)

Cex_C22_EnqueuedPayloadImmutable ==
    [][\A event \in Undelivered :
          event \in Undelivered' => Payload(event)' = Payload(event)]_vars

(***************************************************************************)
(* End to end: one process_candidates call, the delivery of the event it   *)
(* has put (as JSON, followed by the run_complete event of its run), its   *)
(* ingestion, and the funnel request.                                      *)
(***************************************************************************)
\* str(obj) of an object or list that json.dumps rejects: a non-empty string.
Repr == "<obj>"

\* json.dumps of what _serialize returns for an item (or None) and for a list
JsonItem(obj) ==
    IF obj = None THEN PyNone
    ELSE IF JsonSerializable(obj) THEN JStr(_serialize(obj)) ELSE JStr(Repr)

JsonList(list) ==
    IF JsonSerializable(list) THEN JList(_serialize(list)) ELSE JStr(Repr)

JDict(d) == [kind |-> "dict", val |-> d]

\* UUID(event_data["id"]) of the ids the summarizer's caller uses
UUID(str) == CASE str = "run1" -> 1 [] str = "step1" -> 1 [] OTHER -> 2

\* The step_complete event of a process_candidates call as it is posted.
SummaryWire(d, cands, surv) ==
    Event("step_complete",
          [ id |-> UUID(d.id), run_id |-> UUID(d.run_id), name |-> d.name, type |-> d.type,
            inputs |-> [ candidate_count |-> JInt(d.inputs.candidate_count),
                         sample_input |-> JsonItem(IF cands # <<>> THEN cands[1] ELSE None) ],
            outputs |-> [ survivor_count |-> JInt(d.outputs.survivor_count),
                          survivors |-> JsonList(surv) ],
            metadata |-> [ rejection_histogram |-> JDict(d.metadata.rejection_histogram),
                           drop_rate |-> JFloat(d.metadata.drop_rate[1],
                                                d.metadata.drop_rate[2]),
                           total_count |-> JInt(d.metadata.total_count) ],
            started_at |-> d.started_at, completed_at |-> d.completed_at ])

\* The event of the call and the run_complete event of its run reach
\* POST /ingest in one batch.
DeliverSummary ==
    /\ sm_pc = "returned"
    /\ _queue # <<>>
    /\ st_submitted = 0
    /\ \E runs_first \in BOOLEAN :
         Post(<<SummaryWire(_queue[1].data, sm_cands, sm_surv),
                RunEventOf(UUID(sm_run), NoFault)>>, runs_first)

EndToEndNext == SummNext \/ DeliverSummary \/ Analyze

SpecEndToEnd == SummInit /\ [][EndToEndNext]_vars

(***************************************************************************)
(* C23: once the step record of a process_candidates call made under a     *)
(* current run has been delivered and ingested, the funnel entry of that   *)
(* step has input_count = the number of candidates and output_count = the  *)
(* number of survivors, whatever the candidate items are.                  *)
(***************************************************************************)
SummaryReconstructed ==
    /\ fn_resp.status = 200
    /\ fn_resp.run_id = 1
    /\ Len(fn_resp.funnel) = 1

Cex_C23_EndToEndCounts ==
    SummaryReconstructed =>
        /\ fn_resp.funnel[1].input_count = JInt(Len(sm_cands))
        /\ fn_resp.funnel[1].output_count = JInt(Len(sm_surv))

(***************************************************************************)
(* C24: the step record of process_candidates carries as started_at the    *)
(* time at which the call began (sm_now counts from there), before         *)
(* filter_fn was applied to any candidate, and as completed_at the time at *)
(* which it ended.                                                         *)
(***************************************************************************)
Cex_C24_StartedAtIsCallStart ==
    (sm_pc = "returned" /\ sm_run # None) =>
        /\ _queue[1].data.started_at = 0
        /\ _queue[1].data.completed_at = sm_now

(***************************************************************************)
(* C25: the time trigger in general: whenever a wait cycle of the worker   *)
(* (one queue.get) ends with a non-empty batch and at least the flush      *)
(* interval has elapsed since the last flush, the worker goes to flush the *)
(* batch in that cycle, whether queue.get returned an event or timed out.  *)
(***************************************************************************)
Cex_C25_TimeFlushAnyCycle ==
    [][(w_pc = "get" /\ w_pc' # "get" /\ batch' # <<>>
            /\ since_flush >= FlushInterval)
          => w_pc' = "flush"]_vars

(***************************************************************************)
(* C26: monotonic cost.  Step costs are never negative, and the stored     *)
(* total_cost of a run never decreases, whatever events are ingested       *)
(* (re-ingested ones included).                                            *)
(***************************************************************************)
TotalCostOf(runs, r) == runs[DbGet(runs, r)].total_cost

Cex_C26_TotalCostMonotonic ==
    [][\A r \in StoreRunIds :
          DbGet(st_runs, r) # 0 =>
              /\ DbGet(st_runs', r) # 0
              /\ TotalCostOf(st_runs', r) >= TotalCostOf(st_runs, r)]_vars

(***************************************************************************)
(* C27: the reconstruction never fails on bad step fields: every funnel    *)
(* request for a stored run succeeds, and an entry whose step has no       *)
(* number in the fields a count is read from (they are missing or hold a   *)
(* value of another kind) has that count absent.                           *)
(***************************************************************************)
IsCount(v) == v.kind = "int"

Cex_C27_BadFieldsNeverFail ==
    (fn_resp.status # 0 /\ DbGet(st_runs, fn_resp.run_id) # 0) =>
        /\ fn_resp.status = 200
        /\ \A k \in EntriesOfType({"filter"}) :
              LET step == fn_resp.steps[k]
                  entry == fn_resp.funnel[k]
              IN  /\ ( /\ ~IsCount(Get(step.metadata, "total_count"))
                       /\ ~IsCount(Get(step.inputs, "candidate_count")) )
                        => entry.input_count = PyNone
                  /\ ( /\ ~IsCount(Get(step.metadata, "survivor_count"))
                       /\ Get(step.outputs, "survivors").kind # "list" )
                        => entry.output_count = PyNone

(***************************************************************************)
(* C28: when filter_fn raises during process_candidates, with or without a *)
(* current run, the caller sees that very fault, the call puts no event    *)
(* and creates no record, and the current run and current step of every    *)
(* context are as they were.                                               *)
(***************************************************************************)
SummaryRaisedIn(c) ==
    /\ scope_log'.summary.calls = scope_log.summary.calls + 1
    /\ scope_log'.summary.ctx = c
    /\ scope_log'.summary.fault # NoFault

Thm_C28_ClassifyFaultPropagates ==
    [][ \A c \in Contexts :
          SummaryRaisedIn(c) =>
              /\ raising'[c] = scope_log'.summary.fault
              /\ _queue' = _queue
              /\ _current_run' = _current_run
              /\ _current_step' = _current_step
              /\ run_dicts' = run_dicts
              /\ step_dicts' = step_dicts
              /\ frames' = frames ]_vars

\* filter_fn has raised in a call made inside a step scope of a run: the
\* fault is propagating in that context, nothing is in the queue, and the
\* run and the step are still current.
Wit_C28_FaultUnderRunAndStep ==
    \E c \in Contexts :
        /\ scope_log.summary.ctx = c
        /\ scope_log.summary.fault # NoFault
        /\ raising[c] = scope_log.summary.fault
        /\ scope_log.summary.run # NoRef
        /\ CtxGet(_current_run, c) = scope_log.summary.run
        /\ CtxGet(_current_step, c) # NoRef
        /\ _queue = <<>>

(***************************************************************************)
(* C29: at most one attempt: under every interleaving of the producers,    *)
(* the worker and shutdown (also when join times out while the worker is   *)
(* still delivering), no event is included in more than one delivery       *)
(* attempt, nor twice in one, and an event that has been in an attempt is  *)
(* nowhere a later attempt could take it from.                             *)
(***************************************************************************)
NoRepeat(seq) == \A i, j \in DOMAIN seq : seq[i] = seq[j] => i = j

Thm_C29_AtMostOneAttempt ==
    /\ \A i \in DOMAIN attempts : NoRepeat(attempts[i].batch)
    /\ \A i, j \in DOMAIN attempts :
          i # j => Range(attempts[i].batch) \cap Range(attempts[j].batch) = {}
    /\ AttemptedEvents \cap (Range(_queue) \cup Range(remaining)) = {}
    /\ w_pc # "flush" => AttemptedEvents \cap Range(batch) = {}

\* shutdown's join timed out while the worker was delivering: shutdown has
\* posted the events it drained before the worker's delivery ended.
Wit_C29_ShutdownOvertakesWorker ==
    /\ Len(attempts) = 2
    /\ attempts[1].by = "shutdown"
    /\ attempts[2].by = "worker"
    /\ attempts[1].batch # <<>>
    /\ Len(attempts[2].batch) = BatchSize

(***************************************************************************)
(* The batcher while shutdown is never requested.  The worker thread is    *)
(* scheduled again and again, time passes, queue.get returns or times out, *)
(* and a delivery attempt ends (the post has a timeout).                   *)
(***************************************************************************)
LiveNext ==
    \/ Put
    \/ Tick
    \/ WorkerLoopTest
    \/ WorkerGetEvent
    \/ WorkerGetTimeout
    \/ WorkerFlush

Fairness ==
    /\ WF_vars(Tick)
    /\ WF_vars(WorkerLoopTest)
    /\ WF_vars(WorkerGetEvent)
    /\ WF_vars(WorkerGetTimeout)
    /\ WF_vars(WorkerFlush)

SpecBatchLive == BatchInit /\ [][LiveNext]_vars /\ Fairness

(***************************************************************************)
(* C30: as long as the worker runs and shutdown is never requested, every  *)
(* event that has been put is eventually included in a delivery attempt,   *)
(* whether or not the batch ever reaches BatchSize.                        *)
(***************************************************************************)
Thm_C30_EveryEventEventuallyAttempted ==
    \A e \in 1..MaxEvents : (e \in Range(_queue)) ~> (e \in AttemptedEvents)

\* All events have been attempted, the last of them in a batch that never
\* reached BatchSize.
Wit_C30_LastBatchBelowSize ==
    /\ ~_shutdown
    /\ bt_log.put = MaxEvents
    /\ AttemptedEvents = 1..MaxEvents
    /\ Len(attempts[Len(attempts)].batch) < BatchSize
    /\ attempts[Len(attempts)].trigger = "time"

(***************************************************************************)
(* C31: emission order within one context.  Every event of a step scope or *)
(* of a process_candidates call executed inside a run scope is put before  *)
(* the run_complete or run_failed event of that run; in particular, when a *)
(* fault escapes a step scope and then the run scope, step_failed is put   *)
(* before run_failed.  So once a run has put its event, every step record  *)
(* made under it has left its scope.                                       *)
(***************************************************************************)
IsStepEventOf(event, r) ==
    /\ event.type \in {"step_complete", "step_failed"}
    /\ step_dicts[event.data].run_id = run_dicts[r].id

IsRunEventOf(event, r) ==
    /\ event.type \in {"run_complete", "run_failed"}
    /\ event.data = r

Thm_C31_StepEventsBeforeRunEvent ==
    /\ \A r \in RunRefs :
          \A p, q \in DOMAIN _queue :
              (IsStepEventOf(_queue[p], r) /\ IsRunEventOf(_queue[q], r)) => p < q
    /\ \A j \in StepRefs :
          \A r \in RunRefs :
              (step_dicts[j].run_id = run_dicts[r].id /\ RunEvents(r) # <<>>)
                  => scope_log.step[j].exited

\* A fault has escaped a step scope and its run scope, after a
\* process_candidates call in that run: the queue holds the call's
\* step_complete, then step_failed, then run_failed.
Wit_C31_FaultThroughStepAndRun ==
    /\ Len(_queue) = 3
    /\ _queue[1].type = "step_complete"
    /\ step_dicts[_queue[1].data].type = "filter"
    /\ _queue[2].type = "step_failed"
    /\ _queue[3].type = "run_failed"
    /\ IsStepEventOf(_queue[1], _queue[3].data)
    /\ IsStepEventOf(_queue[2], _queue[3].data)

====
